---------------------------- MODULE Spec2Model ----------------------------
(***************************************************************************)
(* Storage-slot layout reconstruction of the recon extension's "argus"     *)
(* analyzer: getBytesSize, calcSlots, getMembersRecursive, processSlots    *)
(* and getDefinitions.                                                     *)
(*                                                                         *)
(* Strings are sequences of one-character strings, so that includes,       *)
(* startsWith, slice, parseInt, the bracket regular expression and the     *)
(* hexadecimal slot keys are computed as the JavaScript code computes them.*)
(* JavaScript numbers that are not integers are the two values undefined   *)
(* and NaN below; arithmetic and comparison on them follow IEEE/JS rules.  *)
(***************************************************************************)
EXTENDS Integers, Sequences, FiniteSets, TLC

VARIABLES
    pc,          \* position of the operation under analysis
    typeString,  \* getBytesSize: the type string of the node passed in
    size,        \* getBytesSize: the value returned
    contract,    \* processSlots: the contract definition passed in
    hierarchy,   \* processSlots: vLinearizedBaseContracts / vStateVariables of every contract
    result,      \* processSlots: the returned { slots, constants }
    members,     \* calcSlots: the member objects of the caller (offset fields are written in place)
    other,       \* calcSlots: a second, unrelated member list
    slots,       \* calcSlots: the value returned by the latest call on members
    prevSlots,   \* calcSlots: the value returned by the call before that
    calls,       \* calcSlots: number of calls made so far
    fnCall,      \* getCallType: the FunctionCall node passed in
    noStaticArg,    \* highLevelCall: the noStatic argument
    callType,    \* getCallType: the value returned
    highLevel,   \* highLevelCall(fnCall, noStatic): the value returned
    program,     \* processFunction: the function and modifier definitions of the compiled sources
    root,        \* processFunction: the definition passed in
    includeDepsArg, \* processFunction / processContract: the includeDeps argument
    tree,        \* processFunction: the value returned (or the exception thrown)
    includeAllArg,  \* processContract: the includeAll argument
    roots,       \* processContract: result.vFunctions (or the exception thrown)
    asts,        \* processCompilerOutput: the source units read from the compiler output
    fsErrors,    \* processCompilerOutput: the file writes that fail
    outcome,     \* processCompilerOutput: the returned { successful, failed, skipped }
    targetUnit,  \* generateCallGraph: the contract definitions of the target source unit
    generated,   \* generateCallGraph: the ArgusGenerateResult returned
    history,     \* build-info directory: every version written so far (file, mtime, content)
    disk,        \* build-info directory: the version each file holds now, 0 when absent
    astCache,    \* generateCallGraph.ts: the module variable astCache
    callers,     \* generateCallGraph: position and locals of each call in flight
    genToken,    \* resolveCustomTextEditor: the generation counter
    webviewHtml, \* resolveCustomTextEditor: webviewPanel.webview.html
    lastPrimaryContract, \* resolveCustomTextEditor: the closure variable of that name
    generations, \* updateWebview: per token, "running" or the result generateCallGraph gave
    handle,      \* debounce: a timer is armed
    building     \* runBuild: the build command has not settled yet

sizeVars == <<typeString, size>>
slotsVars == <<contract, hierarchy, result>>
calcVars == <<members, other, slots, prevSlots, calls>>
callVars == <<fnCall, noStaticArg, callType, highLevel>>
treeVars == <<program, root, includeDepsArg, tree>>
contractVars == <<includeAllArg, roots>>
batchVars == <<asts, fsErrors, outcome>>
graphVars == <<targetUnit, generated>>
cacheVars == <<history, disk, astCache, callers>>
webviewVars == <<genToken, webviewHtml, lastPrimaryContract, generations, handle, building>>
hostVars == <<graphVars, cacheVars, webviewVars>>
coreVars == <<sizeVars, slotsVars, calcVars, callVars, treeVars, contractVars, batchVars>>

vars == <<pc, sizeVars, slotsVars, calcVars, callVars, treeVars, contractVars, batchVars,
          hostVars>>

---------------------------------------------------------------------------
(* JavaScript values                                                       *)

\* The value of a property that was never set, and the result of a failed enum lookup.
undefined == -2
\* The number NaN: undefined + n, parseInt of a string without leading digits.
NaN == -1

IsNumber(v) == v >= 0

\* a + b on JavaScript numbers (undefined converts to NaN, NaN is absorbing).
JsAdd(a, b) == IF IsNumber(a) /\ IsNumber(b) THEN a + b ELSE NaN

\* a > b on JavaScript numbers (any comparison with NaN is false).
JsGt(a, b) == IsNumber(a) /\ IsNumber(b) /\ a > b

\* a / 8 for the bit widths the compiler emits (multiples of 8); NaN / 8 is NaN.
JsDiv8(a) == IF IsNumber(a) THEN a \div 8 ELSE NaN

---------------------------------------------------------------------------
(* Strings                                                                 *)

Digits == <<"0","1","2","3","4","5","6","7","8","9">>
HexDigits == <<"0","1","2","3","4","5","6","7","8","9","a","b","c","d","e","f">>

IsDigit(c) == \E i \in 1..10 : Digits[i] = c
DigitVal(c) == (CHOOSE i \in 1..10 : Digits[i] = c) - 1

RECURSIVE Dec(_)
\* Number.prototype.toString(10) of a non-negative integer.
Dec(n) == IF n < 10 THEN <<Digits[n + 1]>> ELSE Dec(n \div 10) \o <<Digits[(n % 10) + 1]>>

RECURSIVE toString16(_)
\* Number.prototype.toString(16) of a non-negative integer: lowercase digits.
toString16(n) == IF n < 16 THEN <<HexDigits[n + 1]>>
                 ELSE toString16(n \div 16) \o <<HexDigits[(n % 16) + 1]>>

\* String.prototype.padStart with a one-character filler.
padStart(s, len, fill) ==
    IF Len(s) >= len THEN s ELSE [i \in 1..(len - Len(s)) |-> fill] \o s

startsWith(s, p) == Len(s) >= Len(p) /\ SubSeq(s, 1, Len(p)) = p

includes(s, p) == \E i \in 1..(Len(s) - Len(p) + 1) : SubSeq(s, i, i + Len(p) - 1) = p

\* String.prototype.slice(n): the string without its first n characters.
slice(s, n) == SubSeq(s, n + 1, Len(s))

RECURSIVE DigitsValue(_, _)
DigitsValue(s, acc) ==
    IF s = <<>> \/ ~IsDigit(Head(s)) THEN acc
    ELSE DigitsValue(Tail(s), 10 * acc + DigitVal(Head(s)))

RECURSIVE parseInt(_)
\* parseInt(s): leading blanks are skipped, then the longest prefix of decimal
\* digits is read and the rest ignored; NaN when there is no digit to read.
parseInt(s) ==
    IF s = <<>> THEN NaN
    ELSE IF Head(s) = " " THEN parseInt(Tail(s))
    ELSE IF IsDigit(Head(s)) THEN DigitsValue(s, 0)
    ELSE NaN

s_bool == <<"b","o","o","l">>
s_address == <<"a","d","d","r","e","s","s">>
s_address_payable == <<"a","d","d","r","e","s","s"," ","p","a","y","a","b","l","e">>
s_string == <<"s","t","r","i","n","g">>
s_string_memory == <<"s","t","r","i","n","g"," ","m","e","m","o","r","y">>
s_bytes == <<"b","y","t","e","s">>
s_uint == <<"u","i","n","t">>
s_int == <<"i","n","t">>
s_contract_ == <<"c","o","n","t","r","a","c","t"," ">>
s_enum_ == <<"e","n","u","m"," ">>
s_struct_ == <<"s","t","r","u","c","t"," ">>
s_struct == <<"s","t","r","u","c","t">>
s_mapping == <<"m","a","p","p","i","n","g">>
s_dynarr == <<"[","]">>
s_0x == <<"0","x">>

t_contract_Token == <<"c","o","n","t","r","a","c","t"," ","T","o","k","e","n">>
t_contract_Constructor == <<"c","o","n","t","r","a","c","t"," ","C","o","n","s","t","r","u","c","t","o","r">>
t_enum_Kind == <<"e","n","u","m"," ","K","i","n","d">>
t_enum_Instruction == <<"e","n","u","m"," ","I","n","s","t","r","u","c","t","i","o","n">>
t_struct_S == <<"s","t","r","u","c","t"," ","S">>
t_struct_P == <<"s","t","r","u","c","t"," ","P">>
t_UFixed == <<"U","F","i","x","e","d">>
t_function == <<"f","u","n","c","t","i","o","n"," ","(",")"," ","e","x","t","e","r","n","a","l">>
t_mapping_plain == <<"m","a","p","p","i","n","g","(","u","i","n","t","2","5","6"," ","=",">"," ","u","i","n","t","2","5","6",")">>
t_mapping_bool == <<"m","a","p","p","i","n","g","(","a","d","d","r","e","s","s"," ","=",">"," ","b","o","o","l",")">>
t_mapping_arr == <<"m","a","p","p","i","n","g","(","u","i","n","t","2","5","6"," ","=",">"," ","u","i","n","t","2","5","6","[","3","]",")">>

\* T[N] and T[] as the compiler writes them.
FixedArrayOf(t, n) == t \o <<"[">> \o Dec(n) \o <<"]">>
DynArrayOf(t) == t \o s_dynarr

uintN(bits) == s_uint \o Dec(bits)
intN(bits) == s_int \o Dec(bits)
bytesN(n) == s_bytes \o Dec(n)

---------------------------------------------------------------------------
(* getBytesSize                                                            *)

\* enum typeByteSizes, looked up by name: the five named members, undefined
\* otherwise. (The reverse keys "1", "20" and "32" that a numeric TypeScript
\* enum also carries are not type strings the compiler writes.)
typeByteSizes(key) ==
    IF key = s_bool THEN 1
    ELSE IF key = s_address THEN 20
    ELSE IF key = s_address_payable THEN 20
    ELSE IF key = s_string THEN 32
    ELSE IF key = s_string_memory THEN 32
    ELSE undefined

\* getBytesSize(node), as a function of node.typeString. The console.log of an
\* unmatched string has no effect on the value returned.
getBytesSize(ts) ==
    IF includes(ts, s_dynarr) THEN 32
    ELSE IF includes(ts, s_mapping) THEN 32
    ELSE IF includes(ts, s_struct) THEN 32
    ELSE IF startsWith(ts, s_contract_) THEN 20
    ELSE IF startsWith(ts, s_enum_) THEN 1
    ELSE IF startsWith(ts, s_bytes) THEN
        (IF slice(ts, 5) # <<>> THEN parseInt(slice(ts, 5)) ELSE 32)
    ELSE IF startsWith(ts, s_uint) THEN
        (IF slice(ts, 4) # <<>> THEN JsDiv8(parseInt(slice(ts, 4))) ELSE 32)
    ELSE IF startsWith(ts, s_int) THEN
        (IF slice(ts, 3) # <<>> THEN JsDiv8(parseInt(slice(ts, 3))) ELSE 32)
    ELSE typeByteSizes(ts)

---------------------------------------------------------------------------
(* Members and calcSlots                                                   *)

\* parent of a member that was not flattened out of a struct.
NullParent == [isNull |-> TRUE]

\* A Member object as getMembersRecursive builds it: offset is not set, there is
\* no children property. (visibility and absolutePath are copied through and
\* never read by the packer; they are left out.)
Member(name, type, sz, parent, constant, mutability) ==
    [name |-> name, type |-> type, size |-> sz, offset |-> undefined, parent |-> parent,
     constant |-> constant, mutability |-> mutability,
     hasChildren |-> FALSE, children |-> <<>>]

RECURSIVE SumSizes(_)
\* slot.reduce((acc, cur) => acc + cur.size, 0)
SumSizes(slot) == IF slot = <<>> THEN 0
                  ELSE JsAdd(SumSizes(SubSeq(slot, 1, Len(slot) - 1)), slot[Len(slot)].size)

\* Faulty variant: a member that exactly fills the slot is moved to the next one.
PlaceScalarGe(st, member) ==
    IF JsAdd(st.currentSlotSize, member.size) >= 32
    THEN [slots |-> Append(st.slots, st.currentSlot),
          currentSlot |-> <<[member EXCEPT !.offset = 0]>>,
          currentSlotSize |-> member.size]
    ELSE [slots |-> st.slots,
          currentSlot |-> Append(st.currentSlot, [member EXCEPT !.offset = st.currentSlotSize]),
          currentSlotSize |-> JsAdd(st.currentSlotSize, member.size)]

\* Faulty variant: the offset is accumulated onto the value the field already holds.
PlaceScalarAddOffset(st, member) ==
    IF JsGt(JsAdd(st.currentSlotSize, member.size), 32)
    THEN [slots |-> Append(st.slots, st.currentSlot),
          currentSlot |-> <<[member EXCEPT !.offset = 0]>>,
          currentSlotSize |-> member.size]
    ELSE [slots |-> st.slots,
          currentSlot |-> Append(st.currentSlot,
              [member EXCEPT !.offset = IF IsNumber(member.offset)
                                        THEN member.offset + st.currentSlotSize
                                        ELSE st.currentSlotSize]),
          currentSlotSize |-> JsAdd(st.currentSlotSize, member.size)]

\* The else branch of the loop body: a member without children.
PlaceScalar(st, member) ==
    IF JsGt(JsAdd(st.currentSlotSize, member.size), 32)
    THEN [slots |-> Append(st.slots, st.currentSlot),
          currentSlot |-> <<[member EXCEPT !.offset = 0]>>,
          currentSlotSize |-> member.size]
    ELSE [slots |-> st.slots,
          currentSlot |-> Append(st.currentSlot, [member EXCEPT !.offset = st.currentSlotSize]),
          currentSlotSize |-> JsAdd(st.currentSlotSize, member.size)]

\* The forEach callback: one slot of the children's own packing is merged.
MergeSlot(st, slot) ==
    IF JsGt(JsAdd(st.currentSlotSize, SumSizes(slot)), 32)
    THEN [slots |-> Append(st.slots, st.currentSlot),
          currentSlot |-> slot,
          currentSlotSize |-> SumSizes(slot)]
    ELSE [slots |-> st.slots,
          currentSlot |-> st.currentSlot \o slot,
          currentSlotSize |-> JsAdd(st.currentSlotSize, SumSizes(slot))]

RECURSIVE MergeSlots(_, _)
MergeSlots(st, childSlots) ==
    IF childSlots = <<>> THEN st
    ELSE MergeSlots(MergeSlot(st, Head(childSlots)), Tail(childSlots))

\* The member object as the caller sees it after the call: the offset written
\* by the scalar branch is the one of the copy placed last in currentSlot.
Written(st) == st.currentSlot[Len(st.currentSlot)]

RECURSIVE calcSlots(_)
RECURSIVE CalcLoop(_, _, _)
\* The for loop of calcSlots over members[i..]; out collects the member objects
\* in the state the loop leaves them in.
CalcLoop(ms, st, out) ==
    IF ms = <<>> THEN [st |-> st, members |-> out]
    ELSE LET member == Head(ms) IN
         IF member.hasChildren
         THEN LET sub == calcSlots(member.children) IN
              CalcLoop(Tail(ms), MergeSlots(st, sub.slots),
                       Append(out, [member EXCEPT !.children = sub.members]))
         ELSE LET st2 == PlaceScalar(st, member) IN
              CalcLoop(Tail(ms), st2, Append(out, Written(st2)))

\* calcSlots(members): slots is the value returned, members the argument's
\* objects after the call (their offset fields are written in place).
calcSlots(ms) ==
    LET fin == CalcLoop(ms, [slots |-> <<>>, currentSlot |-> <<>>, currentSlotSize |-> 0], <<>>)
    IN [slots |-> IF Len(fin.st.currentSlot) > 0
                  THEN Append(fin.st.slots, fin.st.currentSlot)
                  ELSE fin.st.slots,
        members |-> fin.members]

---------------------------------------------------------------------------
(* getDefinitions, getMembersRecursive, processSlots                       *)

\* A VariableDeclaration node. hasRefDecl: vType is a user-defined type name
\* whose vReferencedDeclaration is set; fields: the VariableDeclaration
\* children of that declaration (the struct's fields).
VariableDeclaration(name, ts, constant, mutability, hasRefDecl, fields) ==
    [name |-> name, typeString |-> ts, constant |-> constant, mutability |-> mutability,
     hasRefDecl |-> hasRefDecl, fields |-> fields]

\* x is among xs (Array.prototype.includes on node references; the nodes of a
\* hierarchy have distinct names).
Contains(xs, x) == \E i \in 1..Len(xs) : xs[i] = x

RECURSIVE DefinitionsOwnFirst(_, _, _)
DefinitionsOwnFirst(h, bases, kind) ==
    IF bases = <<>> THEN <<>> ELSE h[Head(bases)][kind] \o DefinitionsOwnFirst(h, Tail(bases), kind)

\* Faulty variant: the definitions are listed in linearization order, the
\* contract's own first and the most basic contract's last.
getDefinitionsOwnFirst(h, c, kind, inclusion) ==
    LET NotSelf(x) == x # c IN
    (IF inclusion THEN h[c][kind] ELSE <<>>)
        \o DefinitionsOwnFirst(h, SelectSeq(h[c].vLinearizedBaseContracts, NotSelf), kind)

RECURSIVE getDefinitions(_, _, _, _)
RECURSIVE DefinitionsLoop(_, _, _, _)
\* The for loop of getDefinitions over the linearized bases other than c.
DefinitionsLoop(h, bases, kind, defs) ==
    IF bases = <<>> THEN defs
    ELSE LET childDefs == getDefinitions(h, Head(bases), kind, TRUE)
             NotInChild(x) == ~Contains(childDefs, x)
         IN DefinitionsLoop(h, Tail(bases), kind, childDefs \o SelectSeq(defs, NotInChild))

\* getDefinitions(contract, kind, inclusion) in hierarchy h; kind is
\* "vStateVariables" or "vFunctions".
getDefinitions(h, c, kind, inclusion) ==
    LET NotSelf(x) == x # c IN
    DefinitionsLoop(h, SelectSeq(h[c].vLinearizedBaseContracts, NotSelf), kind,
                    IF inclusion THEN h[c][kind] ELSE <<>>)

\* Faulty variant: a struct variable is not flattened; it becomes one member
\* sized by getBytesSize like any other variable.
getMembersNoFlatten(varDef, parent, ms) ==
    Append(ms, Member(varDef.name, varDef.typeString, getBytesSize(varDef.typeString),
                      parent, varDef.constant, varDef.mutability))

RECURSIVE getMembersRecursive(_, _, _)
RECURSIVE MembersOfFields(_, _, _)
MembersOfFields(fields, parent, ms) ==
    IF fields = <<>> THEN ms
    ELSE MembersOfFields(Tail(fields), parent, getMembersRecursive(Head(fields), parent, ms))

\* getMembersRecursive(varDef, parent, members): the members array after the call.
getMembersRecursive(varDef, parent, ms) ==
    IF startsWith(varDef.typeString, s_struct_)
    THEN IF varDef.hasRefDecl
         THEN MembersOfFields(varDef.fields,
                              IF parent.isNull
                              THEN [isNull |-> FALSE, name |-> varDef.name,
                                    type |-> varDef.typeString, constant |-> varDef.constant,
                                    mutability |-> varDef.mutability]
                              ELSE parent,
                              ms)
         ELSE ms
    ELSE Append(ms, Member(varDef.name, varDef.typeString, getBytesSize(varDef.typeString),
                           parent, varDef.constant, varDef.mutability))

RECURSIVE MembersOfVars(_, _)
\* The loop of processSlots over stateVariables.
MembersOfVars(vs, ms) ==
    IF vs = <<>> THEN ms
    ELSE MembersOfVars(Tail(vs), getMembersRecursive(Head(vs), NullParent, ms))

\* x.constant || mutability is Immutable || mutability is Constant
IsConstantVar(x) == x.constant \/ x.mutability = "immutable" \/ x.mutability = "constant"
\* Faulty variant: the filter on stateVariables forgets immutable variables.
IsStateVarKeepsImmutable(x) == ~x.constant /\ x.mutability # "constant"
IsStateVar(x) == ~x.constant /\ x.mutability # "immutable" /\ x.mutability # "constant"

\* type.match(/\[(.*?)\]/): the leftmost "[" that is followed by a "]", and the
\* characters up to the first "]" after it.
BracketMatch(s) ==
    LET Opens == {i \in 1..Len(s) : s[i] = "[" /\ \E j \in (i + 1)..Len(s) : s[j] = "]"} IN
    IF Opens = {} THEN [matched |-> FALSE, group |-> <<>>]
    ELSE LET i == CHOOSE a \in Opens : \A b \in Opens : a <= b
             j == CHOOSE a \in (i + 1)..Len(s) :
                      s[a] = "]" /\ \A b \in (i + 1)..(a - 1) : s[b] # "]"
         IN [matched |-> TRUE, group |-> SubSeq(s, i + 1, j - 1)]

\* `0x${n.toString(16).padStart(64, '0')}`
SlotKey(n) ==
    s_0x \o padStart(IF IsNumber(n) THEN toString16(n) ELSE <<"N", "a", "N">>, 64, "0")

\* Number of slot keys a group of the packing takes.
GroupLength(slot) ==
    IF Len(slot) = 1
    THEN LET match == BracketMatch(slot[1].type) IN
         IF match.matched
         THEN (IF match.group # <<>> THEN parseInt(match.group) ELSE 1)
         ELSE 1
    ELSE 1

RECURSIVE KeyLoop(_, _, _)
\* The loop of processSlots over calculated: the array of single-key objects.
KeyLoop(calculated, counter, acc) ==
    IF calculated = <<>> THEN acc
    ELSE LET slot == Head(calculated)
             n == GroupLength(slot)
             copies == [j \in 1..(IF IsNumber(n) THEN n ELSE 0) |->
                           [key |-> SlotKey(JsAdd(counter, j - 1)), members |-> slot]]
         IN KeyLoop(Tail(calculated), JsAdd(counter, n), acc \o copies)

RECURSIVE ObjectAssign(_, _)
\* Object.assign({}, ...entries): a key assigned again keeps its place and
\* takes the later value.
ObjectAssign(obj, entries) ==
    IF entries = <<>> THEN obj
    ELSE LET e == Head(entries) IN
         IF \E i \in 1..Len(obj) : obj[i].key = e.key
         THEN ObjectAssign([i \in 1..Len(obj) |-> IF obj[i].key = e.key THEN e ELSE obj[i]],
                           Tail(entries))
         ELSE ObjectAssign(Append(obj, e), Tail(entries))

\* The entry pushed onto constants for one variable (source text, visibility
\* and absolutePath are copied through and left out).
ConstantOf(cVar) ==
    [name |-> cVar.name, type |-> cVar.typeString, constant |-> cVar.constant,
     mutability |-> cVar.mutability]

\* processSlots(contract) in hierarchy h: { slots, constants }; slots lists the
\* properties of the slot object in insertion order.
processSlots(h, c) ==
    LET allVars == getDefinitions(h, c, "vStateVariables", TRUE)
        stateVariables == SelectSeq(allVars, IsStateVar)
        ms == MembersOfVars(stateVariables, <<>>)
        calculated == calcSlots(ms).slots
        cVars == SelectSeq(allVars, IsConstantVar)
    IN [slots |-> ObjectAssign(<<>>, KeyLoop(calculated, 0, <<>>)),
        constants |-> [i \in 1..Len(cVars) |-> ConstantOf(cVars[i])]]

---------------------------------------------------------------------------
(* Inputs of getBytesSize: type strings as the compiler writes them        *)

\* Largest N of the fixed-size array types T[N] that are drawn.
MaxArrayLen == 4

ElementaryTypes ==
    {s_bool, s_address, s_address_payable, s_string, s_bytes, s_uint, s_int}
    \cup {uintN(8 * k) : k \in 1..32}
    \cup {intN(8 * k) : k \in 1..32}
    \cup {bytesN(k) : k \in 1..32}

\* Contract, enum, struct, user-defined value and function types.
NamedTypes ==
    {t_contract_Token, t_contract_Constructor, t_enum_Kind, t_enum_Instruction,
     t_struct_S, t_UFixed, t_function}

MappingTypes == {t_mapping_plain, t_mapping_bool, t_mapping_arr}

ArrayTypes ==
    {DynArrayOf(t) : t \in ElementaryTypes \cup NamedTypes}
    \cup {FixedArrayOf(t, n) : t \in ElementaryTypes \cup NamedTypes, n \in 1..MaxArrayLen}

TypeStrings == ElementaryTypes \cup NamedTypes \cup MappingTypes \cup ArrayTypes

---------------------------------------------------------------------------
(* Idle values of the variables an operation does not use                  *)

NoContract == "none"
NoHierarchy == <<>>
NoResult == [slots |-> <<>>, constants |-> <<>>]

SizeIdle == typeString = <<>> /\ size = undefined
SlotsIdle == contract = NoContract /\ hierarchy = NoHierarchy /\ result = NoResult
CalcIdle == members = <<>> /\ other = <<>> /\ slots = <<>> /\ prevSlots = <<>> /\ calls = 0
CallIdle == fnCall = <<>> /\ noStaticArg = FALSE /\ callType = "" /\ highLevel = FALSE
TreeIdle == program = <<>> /\ root = "none" /\ includeDepsArg = FALSE /\ tree = <<>>
ContractIdle == includeAllArg = FALSE /\ roots = <<>>
BatchIdle == asts = <<>> /\ fsErrors = <<>> /\ outcome = <<>>
GraphIdle == targetUnit = <<>> /\ generated = <<>>
CacheIdle == history = <<>> /\ disk = <<>> /\ astCache = <<>> /\ callers = <<>>
WebviewIdle ==
    /\ genToken = 0 /\ webviewHtml = <<>> /\ lastPrimaryContract = ""
    /\ generations = <<>> /\ handle = FALSE /\ building = FALSE
HostIdle == GraphIdle /\ CacheIdle /\ WebviewIdle
ArgusIdle == CallIdle /\ TreeIdle /\ ContractIdle /\ BatchIdle /\ HostIdle
CoreIdle == SizeIdle /\ SlotsIdle /\ CalcIdle /\ CallIdle /\ TreeIdle

---------------------------------------------------------------------------
(* Specification of getBytesSize                                           *)

InitSize ==
    /\ pc = "size"
    /\ typeString \in TypeStrings
    /\ size = undefined
    /\ SlotsIdle
    /\ CalcIdle
    /\ ArgusIdle

\* One call getBytesSize(node): the value returned is kept in size.
GetBytesSize ==
    /\ pc = "size"
    /\ size' = getBytesSize(typeString)
    /\ pc' = "sized"
    /\ UNCHANGED <<typeString, slotsVars, calcVars, callVars, treeVars, contractVars, batchVars, hostVars>>

NextSize == GetBytesSize

SpecSize == InitSize /\ [][NextSize]_vars

---------------------------------------------------------------------------
(* Specification of calcSlots                                              *)

\* Longest member list passed to calcSlots.
MaxLen == 3
\* Largest number of calls of calcSlots on the same member list.
MaxCalls == 2

MemberNames == <<"m1", "m2", "m3", "m4", "m5", "m6", "m7", "m8">>

Scalar(name, sz) == Member(name, <<>>, sz, NullParent, FALSE, "mutable")

\* A member that carries its struct fields as children.
WithChildren(name, kids) ==
    [Member(name, t_struct_S, 32, NullParent, FALSE, "mutable")
        EXCEPT !.hasChildren = TRUE, !.children = kids]

\* Byte widths of the scalar members drawn.
SizePool == {1, 12, 16, 20, 32}

MemberPool ==
    {Scalar("m", sz) : sz \in SizePool}
    \cup {WithChildren("m", <<Scalar("x", 16), Scalar("y", 16)>>),
          WithChildren("m", <<Scalar("x", 20)>>),
          WithChildren("m", <<Scalar("x", 1), Scalar("y", 32)>>),
          WithChildren("m", <<>>),
          WithChildren("m", <<Scalar("x", 1),
                              WithChildren("y", <<Scalar("p", 16), Scalar("q", 16)>>)>>)}

OtherLists ==
    {<<Scalar("o1", 20), Scalar("o2", 20)>>,
     <<Scalar("o1", 1), WithChildren("o2", <<Scalar("x", 16), Scalar("y", 32)>>)>>}

InitCalc ==
    /\ pc = "calc"
    /\ \E n \in 0..MaxLen : \E l \in [1..n -> MemberPool] :
          members = [i \in 1..n |-> [l[i] EXCEPT !.name = MemberNames[i]]]
    /\ other \in OtherLists
    /\ slots = <<>>
    /\ prevSlots = <<>>
    /\ calls = 0
    /\ SizeIdle
    /\ SlotsIdle
    /\ ArgusIdle

\* calcSlots(members): the caller keeps the returned slots; the member objects
\* it passed have had their offsets written.
CalcSlotsCall ==
    /\ pc = "calc"
    /\ calls < MaxCalls
    /\ LET r == calcSlots(members) IN
        /\ slots' = r.slots
        /\ members' = r.members
    /\ prevSlots' = slots
    /\ calls' = calls + 1
    /\ UNCHANGED <<pc, other, sizeVars, slotsVars, callVars, treeVars, contractVars, batchVars, hostVars>>

\* calcSlots(other): a call on another member list, result dropped.
CalcSlotsOther ==
    /\ pc = "calc"
    /\ other' = calcSlots(other).members
    /\ other' # other
    /\ UNCHANGED <<pc, members, slots, prevSlots, calls, sizeVars, slotsVars, callVars, treeVars,
                   contractVars, batchVars, hostVars>>

NextCalc == CalcSlotsCall \/ CalcSlotsOther

SpecCalc == InitCalc /\ [][NextCalc]_vars

---------------------------------------------------------------------------
(* Specification of processSlots                                           *)

\* Largest number of state variables the analysed contract declares itself.
MaxVars == 3

VarNames == <<"v1", "v2", "v3", "v4", "v5", "v6">>

Plain(name, ts) == VariableDeclaration(name, ts, FALSE, "mutable", FALSE, <<>>)

\* struct S { uint128 x; uint128 y; }
FieldsOfS == <<Plain("x", uintN(128)), Plain("y", uintN(128))>>
StructS(name) == VariableDeclaration(name, t_struct_S, FALSE, "mutable", TRUE, FieldsOfS)
\* struct P { bool f; S inner; }
FieldsOfP == <<Plain("f", s_bool), StructS("inner")>>
StructP(name) == VariableDeclaration(name, t_struct_P, FALSE, "mutable", TRUE, FieldsOfP)

\* S[2] name or S[] name: the type string starts with "struct ", and vType is
\* an ArrayTypeName node, which has no vReferencedDeclaration property.
StructArray(name, ts) == VariableDeclaration(name, ts, FALSE, "mutable", FALSE, <<>>)

\* The declarations a contract's own state variables are drawn from.
VarPool ==
    {Plain("v", s_bool), Plain("v", uintN(128)), Plain("v", uintN(256)),
     Plain("v", FixedArrayOf(uintN(256), 3)), Plain("v", FixedArrayOf(s_bool, 2)),
     Plain("v", DynArrayOf(uintN(256))),
     Plain("v", t_mapping_arr),
     StructS("v"),
     VariableDeclaration("v", s_address, FALSE, "immutable", FALSE, <<>>)}

\* The list l with its i-th declaration named VarNames[i].
Named(l) == [i \in 1..Len(l) |-> [l[i] EXCEPT !.name = VarNames[i]]]

ContractDefinition(bases, stateVars) ==
    [vLinearizedBaseContracts |-> bases, vStateVariables |-> stateVars]

\* contract C { own }; contract C is B; contract C is B with B is A; and the
\* diamond contract C is L, R with L is A and R is A (linearized C, R, L, A).
\* B declares bool b1; uint256 constant b2; S[2] b3, and L declares
\* uint128 l1; S[] l2.
Hierarchies(own) ==
    {[c \in {"C"} |-> ContractDefinition(<<"C">>, own)],
     [c \in {"C", "B"} |->
        IF c = "C" THEN ContractDefinition(<<"C", "B">>, own)
        ELSE ContractDefinition(<<"B">>,
                 <<Plain("b1", s_bool),
                   VariableDeclaration("b2", uintN(256), TRUE, "constant", FALSE, <<>>),
                   StructArray("b3", FixedArrayOf(t_struct_S, 2))>>)],
     [c \in {"C", "B", "A"} |->
        IF c = "C" THEN ContractDefinition(<<"C", "B", "A">>, own)
        ELSE IF c = "B" THEN ContractDefinition(<<"B", "A">>, <<StructP("b1")>>)
        ELSE ContractDefinition(<<"A">>, <<Plain("a1", s_address)>>)],
     [c \in {"C", "R", "L", "A"} |->
        IF c = "C" THEN ContractDefinition(<<"C", "R", "L", "A">>, own)
        ELSE IF c = "R" THEN ContractDefinition(<<"R", "A">>, <<Plain("r1", uintN(128))>>)
        ELSE IF c = "L" THEN ContractDefinition(<<"L", "A">>, <<Plain("l1", uintN(128)), StructArray("l2", DynArrayOf(t_struct_S))>>)
        ELSE ContractDefinition(<<"A">>, <<Plain("a1", s_address)>>)]}

InitSlots ==
    /\ pc = "slots"
    /\ contract = "C"
    /\ \E n \in 0..MaxVars : \E l \in [1..n -> VarPool] :
          hierarchy \in Hierarchies(Named(l))
    /\ result = NoResult
    /\ SizeIdle
    /\ CalcIdle
    /\ ArgusIdle

\* One call processSlots(contract).
ProcessSlots ==
    /\ pc = "slots"
    /\ result' = processSlots(hierarchy, contract)
    /\ pc' = "done"
    /\ UNCHANGED <<contract, hierarchy, sizeVars, calcVars, callVars, treeVars, contractVars, batchVars, hostVars>>

NextSlots == ProcessSlots

SpecSlots == InitSlots /\ [][NextSlots]_vars

---------------------------------------------------------------------------
(* Claims about getBytesSize (checked under SpecSize)                      *)

endsWith(s, p) == Len(s) >= Len(p) /\ SubSeq(s, Len(s) - Len(p) + 1, Len(s)) = p

\* Position of the last "[" of s, 0 when there is none.
LastOpen(s) == IF \E i \in 1..Len(s) : s[i] = "["
               THEN CHOOSE i \in 1..Len(s) : s[i] = "[" /\ \A j \in (i + 1)..Len(s) : s[j] # "["
               ELSE 0

IsMappingType(ts) == startsWith(ts, s_mapping)
IsDynamicArrayType(ts) == ~IsMappingType(ts) /\ endsWith(ts, s_dynarr)
\* T[N]: the string ends in "[", one or more digits, "]".
IsFixedArrayType(ts) ==
    /\ ~IsMappingType(ts)
    /\ Len(ts) >= 3
    /\ ts[Len(ts)] = "]"
    /\ LastOpen(ts) > 0
    /\ LastOpen(ts) < Len(ts) - 1
    /\ \A i \in (LastOpen(ts) + 1)..(Len(ts) - 1) : IsDigit(ts[i])
IsArrayType(ts) == IsDynamicArrayType(ts) \/ IsFixedArrayType(ts)

\* C6 (as claimed): getBytesSize never returns for a type string without a byte
\* width; whenever it returns, the value is a width in 1..32 (an unresolvable
\* string raises UnknownType instead of returning undefined or NaN).
C6_ReturnedSizeIsWidth == pc = "sized" => size \in 1..32

\* C7 (as claimed): every mapping, dynamic array T[], fixed-size array T[N] and
\* bare string has size 32, whatever the element type is.
C7_ArraysMappingsStringAre32 ==
    (pc = "sized" /\ (IsMappingType(typeString) \/ IsArrayType(typeString)
                      \/ typeString = s_string))
        => size = 32

\* C8 (as claimed): on non-array, non-mapping type strings bool is 1, address,
\* address payable and every "contract ..." are 20, every "enum ..." is 1,
\* bytesN is N, uintN and intN are N/8, bare bytes, uint and int are 32.
C8_ScalarSizes ==
    (pc = "sized" /\ ~IsMappingType(typeString) /\ ~IsArrayType(typeString)) =>
        /\ typeString = s_bool => size = 1
        /\ typeString \in {s_address, s_address_payable} => size = 20
        /\ startsWith(typeString, s_contract_) => size = 20
        /\ startsWith(typeString, s_enum_) => size = 1
        /\ \A n \in 1..32 : typeString = bytesN(n) => size = n
        /\ \A k \in 1..32 : typeString \in {uintN(8 * k), intN(8 * k)} => size = k
        /\ typeString \in {s_bytes, s_uint, s_int} => size = 32
        /\ (\/ typeString \in {s_bool, s_address, s_address_payable, s_bytes, s_uint, s_int}
            \/ startsWith(typeString, s_contract_) \/ startsWith(typeString, s_enum_)
            \/ \E n \in 1..32 : typeString \in {bytesN(n), uintN(8 * n), intN(8 * n)})
           => size \in 1..32

---------------------------------------------------------------------------
(* Claims about calcSlots (checked under SpecCalc)                         *)

RECURSIVE Concat(_)
\* The members of a sequence of slots, in order.
Concat(ss) == IF ss = <<>> THEN <<>> ELSE Head(ss) \o Concat(Tail(ss))

Sizes(ms) == [i \in 1..Len(ms) |-> ms[i].size]
Offsets(ms) == [i \in 1..Len(ms) |-> ms[i].offset]

\* A flat list of scalar members with sizes in 1..32.
IsFlat(ms) == \A i \in 1..Len(ms) : ~ms[i].hasChildren /\ ms[i].size \in 1..32

\* Every member of the slot sits right after the members before it.
OffsetsAreRunningSums(slot) ==
    \A j \in 1..Len(slot) : slot[j].offset = SumSizes(SubSeq(slot, 1, j - 1))

RECURSIVE Pristine(_)
\* The member list as it was before any call wrote an offset into it.
Pristine(ms) ==
    [i \in 1..Len(ms) |->
        [ms[i] EXCEPT !.offset = undefined, !.children = Pristine(ms[i].children)]]

\* C2: on a flat list of scalars with sizes in 1..32 the result of calcSlots is
\* the greedy order-preserving packing: the slots concatenated are the input
\* list (nothing dropped, duplicated or reordered), every offset is the sum of
\* the sizes before it in its slot, no slot is empty or exceeds 32 bytes, and
\* a slot is closed only when the next member does not fit into it. Sizes
\* 1,1,20 give one slot with offsets 0,1,2; sizes 32,20 give two slots.
C2_GreedyPacking ==
    (pc = "calc" /\ calls >= 1 /\ IsFlat(members)) =>
        /\ Concat(slots) = members
        /\ \A k \in 1..Len(slots) :
              /\ slots[k] # <<>>
              /\ SumSizes(slots[k]) <= 32
              /\ OffsetsAreRunningSums(slots[k])
        /\ \A k \in 2..Len(slots) : SumSizes(slots[k - 1]) + slots[k][1].size > 32
        /\ Sizes(members) = <<1, 1, 20>> =>
              (Len(slots) = 1 /\ Offsets(slots[1]) = <<0, 1, 2>>)
        /\ Sizes(members) = <<32, 20>> =>
              (Len(slots) = 2 /\ Len(slots[1]) = 1 /\ Offsets(slots[2]) = <<0>>)

\* C2 witness: bool, bool, address has been packed into a single slot.
C2_Witness ==
    /\ pc = "calc" /\ calls >= 1 /\ IsFlat(members)
    /\ Sizes(members) = <<1, 1, 20>>
    /\ Len(slots) = 1

\* Some member of the list is given with its pre-expanded field list.
HasStructMember(ms) == \E i \in 1..Len(ms) : ms[i].hasChildren

\* C23: when a member has children, the children are packed on their own and
\* the groups merged into the outer stream so that in every slot of the result
\* each offset is the sum of the sizes before it in that slot, no slot is
\* empty, and no slot exceeds 32 bytes.
C23_MergedOffsetsAreRebased ==
    (pc = "calc" /\ calls >= 1 /\ HasStructMember(members)) =>
        \A k \in 1..Len(slots) :
            /\ slots[k] # <<>>
            /\ SumSizes(slots[k]) <= 32
            /\ OffsetsAreRunningSums(slots[k])

\* C10: a second call of calcSlots on the same member objects (offsets already
\* written) returns what the first call returned, and every call returns what
\* a call on the untouched list returns, whether or not calcSlots has been
\* called on another list in between.
C10_Deterministic ==
    pc = "calc" =>
        /\ calls >= 2 => slots = prevSlots
        /\ calls >= 1 => slots = calcSlots(Pristine(members)).slots

\* C10 witness: two calls on a list with a struct member that needs two slots,
\* with a call on another list made as well.
C10_Witness ==
    /\ pc = "calc" /\ calls = 2
    /\ Len(slots) >= 2
    /\ \E i \in 1..Len(members) : members[i].hasChildren /\ members[i].children # <<>>
    /\ \E i \in 1..Len(members) : ~members[i].hasChildren /\ members[i].offset > 0
    /\ other[1].offset # undefined

---------------------------------------------------------------------------
(* Claims about processSlots (checked under SpecSlots)                     *)

Range(f) == {f[i] : i \in DOMAIN f}

\* The state variables declared by the analysed contract and by its bases.
DeclaredVars ==
    UNION {Range(hierarchy[c].vStateVariables) :
              c \in Range(hierarchy[contract].vLinearizedBaseContracts)}

\* The groups calcSlots returns to processSlots for the analysed contract.
Calculated ==
    calcSlots(MembersOfVars(SelectSeq(getDefinitions(hierarchy, contract, "vStateVariables", TRUE), IsStateVar),
                            <<>>)).slots

\* The variable v is present in a slot, itself or through one of its fields.
InSlots(v) ==
    \E i \in 1..Len(result.slots) : \E j \in 1..Len(result.slots[i].members) :
        LET m == result.slots[i].members[j] IN
        IF m.parent.isNull THEN m.name = v.name ELSE m.parent.name = v.name

\* Value of a slot key: its 64 hexadecimal digits read as a number.
HexDigitVal(c) == (CHOOSE i \in 1..16 : HexDigits[i] = c) - 1
RECURSIVE HexValue(_, _)
HexValue(ds, acc) == IF ds = <<>> THEN acc ELSE HexValue(Tail(ds), 16 * acc + HexDigitVal(Head(ds)))

\* 0x followed by 64 lowercase hexadecimal digits.
IsSlotKey(k) ==
    /\ Len(k) = 66
    /\ SubSeq(k, 1, 2) = s_0x
    /\ \A i \in 3..66 : \E d \in 1..16 : HexDigits[d] = k[i]
\* The number a slot key writes: its digits after the leading zeros.
KeyValue(k) ==
    LET ds == SubSeq(k, 3, 66)
        first == CHOOSE i \in 1..64 :
                    /\ i = 64 \/ ds[i] # "0"
                    /\ \A j \in 1..(i - 1) : ds[j] = "0"
    IN HexValue(SubSeq(ds, first, 64), 0)

\* C1 (as claimed): in every slot of the returned map the members' byte ranges
\* [offset, offset + size) lie inside [0, 32), are pairwise disjoint, and the
\* sizes sum to at most 32.
C1_SlotsWellFormed ==
    pc = "done" =>
        \A i \in 1..Len(result.slots) :
            LET ms == result.slots[i].members IN
            /\ \A j \in 1..Len(ms) :
                  /\ IsNumber(ms[j].offset) /\ IsNumber(ms[j].size)
                  /\ ms[j].offset + ms[j].size <= 32
            /\ \A j, k \in 1..Len(ms) :
                  j < k => (\/ ms[j].offset + ms[j].size <= ms[k].offset
                            \/ ms[k].offset + ms[k].size <= ms[j].offset)
            /\ IsNumber(SumSizes(ms)) /\ SumSizes(ms) <= 32

\* The declarations bool v1; S v2; bool v3 with struct S { uint128 x; uint128 y; }.
IsBoolStructBool ==
    /\ DOMAIN hierarchy = {"C"}
    /\ hierarchy["C"].vStateVariables = <<Plain("v1", s_bool), StructS("v2"), Plain("v3", s_bool)>>

Layout(ms) == [j \in 1..Len(ms) |-> <<ms[j].name, ms[j].size, ms[j].offset>>]

\* C3: bool v1; S v2; bool v3 gives exactly slot 0 = v1 (1 byte at 0), x (16
\* bytes at 1) and slot 1 = y (16 bytes at 0), v3 (1 byte at 16); and in every
\* result a slot other than the first starts only where its first member, a
\* struct field or not, did not fit into the slot before it.
C3_StructFieldsShareSlots ==
    pc = "done" =>
        /\ IsBoolStructBool =>
              /\ Len(result.slots) = 2
              /\ result.slots[1].key = SlotKey(0)
              /\ Layout(result.slots[1].members) = << <<"v1", 1, 0>>, <<"x", 16, 1>> >>
              /\ result.slots[2].key = SlotKey(1)
              /\ Layout(result.slots[2].members) = << <<"y", 16, 0>>, <<"v3", 1, 16>> >>
        /\ \A k \in 2..Len(Calculated) :
              JsGt(JsAdd(SumSizes(Calculated[k - 1]), Calculated[k][1].size), 32)
        /\ Concat(Calculated) =
              calcSlots(MembersOfVars(SelectSeq(getDefinitions(hierarchy, contract, "vStateVariables", TRUE),
                                                IsStateVar), <<>>)).members

\* C3 witness: the example has been laid out, a struct field sharing slot 0
\* with the scalar declared before the struct.
C3_Witness ==
    /\ pc = "done" /\ IsBoolStructBool
    /\ Len(result.slots) = 2
    /\ result.slots[1].members[1].parent.isNull
    /\ ~result.slots[1].members[2].parent.isNull

\* C4 (as claimed): when no state variable has a fixed-size-array type, the
\* keys are well-formed and are exactly 0..K-1 in order, K the number of
\* groups calcSlots produced.
C4_KeysAreGroupIndexes ==
    (pc = "done" /\ \A v \in DeclaredVars : ~IsFixedArrayType(v.typeString)) =>
        /\ Len(result.slots) = Len(Calculated)
        /\ \A i \in 1..Len(result.slots) :
              IsSlotKey(result.slots[i].key) /\ KeyValue(result.slots[i].key) = i - 1

\* C5: a constant or immutable variable of the contract or of a base is in no
\* slot, takes no bytes and no key (the slot map is the one of the hierarchy
\* without it) and is listed once among the constants; any other variable is
\* not listed among the constants.
C5_ConstantsPartition ==
    pc = "done" =>
        /\ \A v \in DeclaredVars :
              LET listed == {i \in 1..Len(result.constants) : result.constants[i].name = v.name}
              IN IF IsConstantVar(v)
                 THEN ~InSlots(v) /\ Cardinality(listed) = 1
                 ELSE listed = {}
        /\ Len(result.constants) = Cardinality({v \in DeclaredVars : IsConstantVar(v)})
        /\ result.slots =
              processSlots([c \in DOMAIN hierarchy |->
                               [hierarchy[c] EXCEPT !.vStateVariables =
                                   SelectSeq(hierarchy[c].vStateVariables,
                                             LAMBDA x : ~IsConstantVar(x))]],
                           contract).slots

\* C5 witness: a contract with an immutable variable of its own between two
\* packed variables, and a constant in its base.
C5_Witness ==
    /\ pc = "done"
    /\ Len(result.constants) >= 2
    /\ Len(result.slots) >= 2
    /\ \E v \in Range(hierarchy["C"].vStateVariables) : v.mutability = "immutable"
    /\ \E v \in DeclaredVars : v.constant /\ v.name = "b2"

\* Number of keys the claim gives a group: N for a single member whose own
\* type is T[N], one otherwise.
ClaimedLength(slot) ==
    IF Len(slot) = 1 /\ IsFixedArrayType(slot[1].type)
    THEN parseInt(SubSeq(slot[1].type, LastOpen(slot[1].type) + 1, Len(slot[1].type) - 1))
    ELSE 1

RECURSIVE ClaimedEntries(_, _)
ClaimedEntries(groups, counter) ==
    IF groups = <<>> THEN <<>>
    ELSE [j \in 1..ClaimedLength(Head(groups)) |->
             [key |-> SlotKey(counter + j - 1), members |-> Head(groups)]]
         \o ClaimedEntries(Tail(groups), counter + ClaimedLength(Head(groups)))

RECURSIVE ReverseLinearization(_, _, _)
\* The definitions of the contracts of a linearization, the last contract's
\* first and the first contract's last, declaration order kept in each.
ReverseLinearization(h, bases, kind) ==
    IF bases = <<>> THEN <<>>
    ELSE ReverseLinearization(h, Tail(bases), kind) \o h[Head(bases)][kind]

\* Name of the state variable a member stands for: its own, or that of the
\* struct variable it is a field of.
VariableOf(m) == IF m.parent.isNull THEN m.name ELSE m.parent.name

IsOwnMember(m) ==
    \E v \in Range(hierarchy[contract].vStateVariables) : v.name = VariableOf(m)

\* C26: getDefinitions(contract, kind, true) is the list of the definitions of
\* the contract and its linearized bases, each once, the most basic contract's
\* first and the contract's own last, declaration order kept inside each
\* contract; in the slot map no member of an own variable comes before a
\* member of an inherited one.
C26_DefinitionsInReverseLinearization ==
    pc = "done" =>
        /\ getDefinitions(hierarchy, contract, "vStateVariables", TRUE)
              = ReverseLinearization(hierarchy, hierarchy[contract].vLinearizedBaseContracts,
                                     "vStateVariables")
        /\ \A i, k \in 1..Len(result.slots) :
              \A j \in 1..Len(result.slots[i].members) :
              \A l \in 1..Len(result.slots[k].members) :
                 (/\ IsOwnMember(result.slots[i].members[j])
                  /\ ~IsOwnMember(result.slots[k].members[l]))
                    => (k < i \/ (k = i /\ l < j))

\* C26 witness: a contract with two variables of its own and the diamond of
\* bases has been processed; the slot map starts with the variable of A.
C26_Witness ==
    /\ pc = "done"
    /\ DOMAIN hierarchy = {"C", "R", "L", "A"}
    /\ Len(hierarchy["C"].vStateVariables) >= 2
    /\ Len(getDefinitions(hierarchy, contract, "vStateVariables", TRUE)) >= 4
    /\ Layout(result.slots[1].members) = << <<"a1", 20, 0>> >>
    /\ \E i \in 1..Len(result.slots) : \E j \in 1..Len(result.slots[i].members) :
          IsOwnMember(result.slots[i].members[j])
    /\ \E i \in 1..Len(result.slots) : \E j \in 1..Len(result.slots[i].members) :
          ~IsOwnMember(result.slots[i].members[j])

\* The type string starts with "struct " and ends in [N] or [].
IsStructArray(v) == startsWith(v.typeString, s_struct_) /\ IsArrayType(v.typeString)

\* C27: every state variable of the contract and its bases that is neither
\* constant nor immutable is in the slot map, as a member of its own or through
\* its struct fields; a variable whose type is an array of structs is not
\* dropped.
C27_NoVariableDropped ==
    pc = "done" => \A v \in DeclaredVars : ~IsConstantVar(v) => InSlots(v)

---------------------------------------------------------------------------
(* AST nodes read by the call classifier and the call-tree builder         *)

s_type_library_ == <<"t","y","p","e","(","l","i","b","r","a","r","y"," ">>
t_contract_IERC20 == <<"c","o","n","t","r","a","c","t"," ","I","E","R","C","2","0">>
t_library_Lib == <<"t","y","p","e","(","l","i","b","r","a","r","y"," ","L","i","b",")">>
t_contract_type == <<"t","y","p","e","(","c","o","n","t","r","a","c","t"," ","V","a","u","l","t",")">>
t_uint256 == <<"u","i","n","t","2","5","6">>
t_function_internal == <<"f","u","n","c","t","i","o","n"," ","(",")">>

\* The values of the CallType enum.
Internal == "internal"
HighLevel == "high-level"
LowLevel == "low-level"

\* vReferencedDeclaration of a node that resolves to nothing.
NoDeclaration == "none"

\* An Identifier expression.
Identifier(name, ref, ts) ==
    [kind |-> "Identifier", name |-> name, vReferencedDeclaration |-> ref, typeString |-> ts]

\* A MemberAccess expression  vExpression.memberName .
MemberAccess(vExpression, memberName, ref, ts) ==
    [kind |-> "MemberAccess", memberName |-> memberName, vReferencedDeclaration |-> ref,
     typeString |-> ts, vExpression |-> vExpression]

\* A FunctionCallOptions expression  vExpression{value: ..., gas: ...} .
FunctionCallOptions(vExpression) ==
    [kind |-> "FunctionCallOptions", typeString |-> vExpression.typeString,
     vExpression |-> vExpression]

\* The callee of a call expression once the call options around it, in the
\* braces form f{value: v} and in the legacy form f.value(v), are taken off.
RECURSIVE vCallee(_)
vCallee(e) ==
    IF e.kind = "FunctionCallOptions" THEN vCallee(e.vExpression)
    ELSE IF /\ e.kind = "FunctionCall"
            /\ e.vExpression.kind = "MemberAccess"
            /\ e.vExpression.memberName \in {"gas", "value"}
         THEN vCallee(e.vExpression.vExpression)
    ELSE e

\* A FunctionCall expression  vExpression(...) . Its vReferencedDeclaration
\* is the declaration its callee resolves to.
FunctionCall(vExpression, ts) ==
    [kind |-> "FunctionCall", typeString |-> ts, vExpression |-> vExpression,
     vReferencedDeclaration |->
        LET callee == vCallee(vExpression) IN
        IF callee.kind \in {"Identifier", "MemberAccess"}
        THEN callee.vReferencedDeclaration ELSE NoDeclaration]

\* A FunctionDefinition or ModifierDefinition node (kind), or another
\* declaration a name can resolve to. returns: the number of return
\* parameters; path: absolutePath of the enclosing source unit; body: the
\* descendants of the node that carry a reference, in the order of walk().
Definition(kind, name, parameters, visibility, stateMutability, implemented, returns, path, body) ==
    [kind |-> kind, name |-> name, parameters |-> parameters, visibility |-> visibility,
     stateMutability |-> stateMutability, implemented |-> implemented, returns |-> returns,
     path |-> path, body |-> body]

IsFunctionDefinition(decls, ref) ==
    ref # NoDeclaration /\ decls[ref].kind = "FunctionDefinition"

\* ref.getChildrenByType(FunctionCall)
FunctionCallsOf(decls, ref) ==
    LET IsCall(n) == n.kind = "FunctionCall" IN SelectSeq(decls[ref].body, IsCall)

---------------------------------------------------------------------------
(* Call classification: highLevelCall, lowLevelCall, getCallType           *)

\* Number of nested activations after which the engine throws RangeError
\* (Maximum call stack size exceeded).
MaxStack == 6

Returned(v) == [threw |-> FALSE, value |-> v]
RangeError == [threw |-> TRUE, value |-> FALSE]

IsStatic(decls, ref) ==
    decls[ref].stateMutability \in {"pure", "view", "constant"}

\* Faulty variant: every member call that resolves to a function definition
\* is high-level, whatever the type of its receiver.
highLevelCallAnyReceiver(decls, call, noStatic, depth) ==
    IF call.vExpression.kind # "MemberAccess" THEN Returned(FALSE)
    ELSE LET ref == call.vExpression.vReferencedDeclaration IN
         Returned(IsFunctionDefinition(decls, ref) /\ ~(noStatic /\ IsStatic(decls, ref)))

RECURSIVE highLevelCall(_, _, _, _)
RECURSIVE highLevelCallWithOptions(_, _, _, _)
RECURSIVE AnyHighLevel(_, _, _, _)

\* The for loop over the calls made by a library function: TRUE as soon as
\* one of them is a high-level call, FALSE when the loop runs out.
AnyHighLevel(decls, inCalls, noStatic, depth) ==
    IF inCalls = <<>> THEN Returned(FALSE)
    ELSE LET a == highLevelCall(decls, Head(inCalls), noStatic, depth + 1) IN
         IF a.threw THEN RangeError
         ELSE IF a.value THEN Returned(TRUE)
         ELSE LET b == highLevelCallWithOptions(decls, Head(inCalls), noStatic, depth + 1) IN
              IF b.threw THEN RangeError
              ELSE IF b.value THEN Returned(TRUE)
              ELSE AnyHighLevel(decls, Tail(inCalls), noStatic, depth)

highLevelCallWithOptions(decls, call, noStatic, depth) ==
    IF depth > MaxStack THEN RangeError
    ELSE IF ~(call.vExpression.kind = "MemberAccess"
              /\ call.vExpression.vExpression.kind = "MemberAccess")
    THEN Returned(FALSE)
    ELSE LET inner == call.vExpression.vExpression
             ref == inner.vReferencedDeclaration
             receiver == inner.vExpression.typeString
             last == Returned(startsWith(receiver, s_contract_) \/ inner.typeString = s_address)
         IN
         IF ~IsFunctionDefinition(decls, ref) THEN Returned(FALSE)
         ELSE IF noStatic /\ IsStatic(decls, ref) THEN Returned(FALSE)
         ELSE IF startsWith(receiver, s_type_library_)
         THEN IF decls[ref].returns = 0 THEN Returned(FALSE)
              ELSE LET any == AnyHighLevel(decls, FunctionCallsOf(decls, ref), noStatic, depth) IN
                   IF any.threw \/ any.value THEN any ELSE last
         ELSE last

highLevelCall(decls, call, noStatic, depth) ==
    IF depth > MaxStack THEN RangeError
    ELSE IF call.vExpression.kind # "MemberAccess" THEN Returned(FALSE)
    ELSE LET ref == call.vExpression.vReferencedDeclaration
             receiver == call.vExpression.vExpression.typeString
             last == Returned(startsWith(receiver, s_contract_) \/ receiver = s_address)
         IN
         IF ~IsFunctionDefinition(decls, ref) THEN Returned(FALSE)
         ELSE IF noStatic /\ IsStatic(decls, ref) THEN Returned(FALSE)
         ELSE IF startsWith(receiver, s_type_library_)
         THEN IF decls[ref].returns = 0 THEN Returned(FALSE)
              ELSE LET any == AnyHighLevel(decls, FunctionCallsOf(decls, ref), noStatic, depth) IN
                   IF any.threw \/ any.value THEN any ELSE last
         ELSE last

lowLevelCallWithOptions(call) ==
    /\ call.vExpression.kind = "MemberAccess"
    /\ call.vExpression.vExpression.kind = "MemberAccess"
    /\ call.vExpression.vExpression.memberName = "call"

lowLevelCall(call) ==
    IF call.vExpression.kind = "MemberAccess" /\ call.vExpression.memberName = "call" THEN TRUE
    ELSE IF lowLevelCallWithOptions(call) THEN TRUE
    ELSE FALSE

\* The exception getCallType lets through, in place of a CallType.
Throws == "RangeError"

\* Faulty variant: the low-level test comes before the high-level test.
getCallTypeLowLevelFirst(decls, call, depth) ==
    IF lowLevelCall(call) THEN LowLevel
    ELSE LET high == highLevelCall(decls, call, FALSE, depth + 1) IN
         IF high.threw THEN Throws
         ELSE IF high.value THEN HighLevel
         ELSE Internal

\* getCallType(fnCall), called at nesting depth `depth` of the caller.
getCallType(decls, call, depth) ==
    LET high == highLevelCall(decls, call, FALSE, depth + 1) IN
    IF high.threw THEN Throws
    ELSE IF high.value THEN HighLevel
    ELSE IF lowLevelCall(call) THEN LowLevel
    ELSE Internal

---------------------------------------------------------------------------
(* Specification of getCallType                                            *)

p_src_Token == <<"s","r","c","/","T","o","k","e","n",".","s","o","l">>
p_src_Lib == <<"s","r","c","/","L","i","b",".","s","o","l">>

\* A function of an interface or a library, as the classifier reads it.
ExternalFn(name, stateMutability, returns) ==
    Definition("FunctionDefinition", name, <<>>, "external", stateMutability, FALSE, returns,
               p_src_Token, <<>>)
LibraryFn(name, stateMutability, returns, body) ==
    Definition("FunctionDefinition", name, <<>>, "internal", stateMutability, TRUE, returns,
               p_src_Lib, body)

token == Identifier("token", "token", t_contract_IERC20)
to == Identifier("to", "to", s_address)

\* IERC20: transfer, send, call, balanceOf. Lib: pureHelper (no call),
\* pureSum (calls the internal _add), forward (returns the result of
\* token.transfer), notify (the same, returning nothing), raw (to.call),
\* ping and pong of Lib and Lib2 (each calls the other).
ClassifierDecls ==
    [ transfer |-> ExternalFn("transfer", "nonpayable", 1),
      send |-> ExternalFn("send", "nonpayable", 0),
      call |-> ExternalFn("call", "payable", 1),
      balanceOf |-> ExternalFn("balanceOf", "view", 1),
      token |-> Definition("VariableDeclaration", "token", <<>>, "internal", "mutable", TRUE, 0,
                           p_src_Token, <<>>),
      to |-> Definition("VariableDeclaration", "to", <<>>, "internal", "mutable", TRUE, 0,
                        p_src_Token, <<>>),
      _add |-> LibraryFn("_add", "pure", 1, <<>>),
      pureHelper |-> LibraryFn("pureHelper", "pure", 1, <<>>),
      pureSum |-> LibraryFn("pureSum", "pure", 1,
            << FunctionCall(Identifier("_add", "_add", t_function_internal), t_uint256),
               Identifier("_add", "_add", t_function_internal) >>),
      forward |-> LibraryFn("forward", "nonpayable", 1,
            << FunctionCall(MemberAccess(token, "transfer", "transfer", t_function), s_bool) >>),
      notify |-> LibraryFn("notify", "nonpayable", 0,
            << FunctionCall(MemberAccess(token, "transfer", "transfer", t_function), s_bool) >>),
      raw |-> LibraryFn("raw", "nonpayable", 1,
            << FunctionCall(MemberAccess(to, "call", NoDeclaration, t_function), s_bool) >>),
      ping |-> LibraryFn("ping", "nonpayable", 1,
            << FunctionCall(MemberAccess(Identifier("Lib2", NoDeclaration, t_library_Lib),
                                         "pong", "pong", t_function), t_uint256) >>),
      pong |-> LibraryFn("pong", "nonpayable", 1,
            << FunctionCall(MemberAccess(Identifier("Lib", NoDeclaration, t_library_Lib),
                                         "ping", "ping", t_function), t_uint256) >>) ]

ReceiverTypes ==
    {s_address, s_address_payable, t_contract_IERC20, t_library_Lib, t_contract_type, t_uint256}

\* x, s.owner (an address), s.token (a contract) and the cast IERC20(x).
Receivers ==
    {Identifier("x", NoDeclaration, ts) : ts \in ReceiverTypes}
    \cup {MemberAccess(Identifier("s", NoDeclaration, t_struct_S), "owner", NoDeclaration, s_address),
          MemberAccess(Identifier("s", NoDeclaration, t_struct_S), "token", NoDeclaration,
                       t_contract_IERC20),
          FunctionCall(Identifier("IERC20", NoDeclaration, t_contract_type), t_contract_IERC20)}

\* The members of address and the functions a member name resolves to.
BuiltinMembers == {"call", "staticcall", "delegatecall", "send", "transfer"}
MemberFunctions ==
    {"transfer", "send", "call", "balanceOf", "pureHelper", "pureSum", "forward", "notify",
     "raw", "ping"}

Members ==
    {MemberAccess(r, m, NoDeclaration, t_function) : r \in Receivers, m \in BuiltinMembers}
    \cup {MemberAccess(r, ClassifierDecls[f].name, f, t_function) :
             r \in Receivers, f \in MemberFunctions}

\* x.f, x.f{value: 1}, x.f.value, x.f.value(1) and the plain name _add.
Callees ==
    Members
    \cup {FunctionCallOptions(m) : m \in Members}
    \cup {MemberAccess(m, "value", NoDeclaration, t_function) : m \in Members}
    \cup {FunctionCall(MemberAccess(m, "value", NoDeclaration, t_function), t_function) :
             m \in Members}
    \cup {Identifier("_add", "_add", t_function_internal)}

InitCall ==
    /\ pc = "call"
    /\ \E callee \in Callees : fnCall = FunctionCall(callee, t_uint256)
    /\ noStaticArg \in BOOLEAN
    /\ callType = ""
    /\ highLevel = FALSE
    /\ SizeIdle /\ SlotsIdle /\ CalcIdle
    /\ TreeIdle /\ ContractIdle /\ BatchIdle /\ HostIdle

\* One call getCallType(fnCall) and one call highLevelCall(fnCall, noStatic);
\* an exception of the second is left out of highLevel.
GetCallType ==
    /\ pc = "call"
    /\ callType' = getCallType(ClassifierDecls, fnCall, 0)
    /\ highLevel' = highLevelCall(ClassifierDecls, fnCall, noStaticArg, 1).value
    /\ pc' = "classified"
    /\ UNCHANGED <<fnCall, noStaticArg, sizeVars, slotsVars, calcVars, treeVars, contractVars,
                   batchVars, hostVars>>

NextCall == GetCallType

SpecCall == InitCall /\ [][NextCall]_vars

---------------------------------------------------------------------------
(* Claims about getCallType (checked under SpecCall)                       *)

Classified == pc = "classified"

\* The call's callee is the options form  x.call{...}  on an address.
IsCallWithOptionsForm ==
    /\ fnCall.vExpression.kind = "FunctionCallOptions"
    /\ fnCall.vExpression.vExpression.kind = "MemberAccess"
    /\ fnCall.vExpression.vExpression.memberName = "call"
    /\ fnCall.vExpression.vExpression.vReferencedDeclaration = NoDeclaration
    /\ fnCall.vExpression.vExpression.vExpression.typeString \in {s_address, s_address_payable}

\* C11: a low-level call written x.call{value: 1}(...) is classified
\* LowLevel, for either value of noStatic.
C11_CallWithOptionsIsLowLevel ==
    (Classified /\ IsCallWithOptionsForm) => callType = LowLevel

\* The call's callee is a member access on a receiver of contract type that
\* resolves to a function definition.
IsContractMemberCall ==
    /\ fnCall.vExpression.kind = "MemberAccess"
    /\ startsWith(fnCall.vExpression.vExpression.typeString, s_contract_)
    /\ IsFunctionDefinition(ClassifierDecls, fnCall.vExpression.vReferencedDeclaration)

\* C12: a member call on a receiver of contract type that resolves to a
\* function declaration is HighLevel, also when the member is named transfer,
\* send or call.
C12_ContractMemberCallIsHighLevel ==
    (Classified /\ IsContractMemberCall) => callType = HighLevel

\* IERC20(x).call(...), a member named like the low-level primitive, has
\* been classified HighLevel.
C12_Witness ==
    /\ Classified /\ IsContractMemberCall /\ callType = HighLevel
    /\ fnCall.vExpression.memberName = "call"
    /\ fnCall.vExpression.vExpression.kind = "FunctionCall"

\* The function makes no call but calls of plain names.
MakesNoExternalCall(ref) ==
    \A i \in 1..Len(ClassifierDecls[ref].body) :
        LET n == ClassifierDecls[ref].body[i] IN
        n.kind = "FunctionCall" => n.vExpression.kind = "Identifier"

\* The call is lib.f(...) with f a pure library function, not named call,
\* that makes no external call.
IsPureLibraryCall ==
    /\ fnCall.vExpression.kind = "MemberAccess"
    /\ fnCall.vExpression.vExpression.kind = "Identifier"
    /\ startsWith(fnCall.vExpression.vExpression.typeString, s_type_library_)
    /\ IsFunctionDefinition(ClassifierDecls, fnCall.vExpression.vReferencedDeclaration)
    /\ ClassifierDecls[fnCall.vExpression.vReferencedDeclaration].stateMutability = "pure"
    /\ fnCall.vExpression.memberName # "call"
    /\ MakesNoExternalCall(fnCall.vExpression.vReferencedDeclaration)

LowLevelNames == {"call", "staticcall", "delegatecall", "send", "transfer"}

\* The callee is x.m, or x.m.value (a member access on the member access
\* x.m), with m one of the five low-level members of an address.
IsLowLevelShape ==
    /\ fnCall.vExpression.kind = "MemberAccess"
    /\ \/ /\ fnCall.vExpression.memberName \in LowLevelNames
          /\ fnCall.vExpression.vReferencedDeclaration = NoDeclaration
       \/ /\ fnCall.vExpression.vExpression.kind = "MemberAccess"
          /\ fnCall.vExpression.vExpression.memberName \in LowLevelNames
          /\ fnCall.vExpression.vExpression.vReferencedDeclaration = NoDeclaration

\* C21: a call whose callee is, or wraps, a member access named call,
\* staticcall, delegatecall, send or transfer, and which is not a high-level
\* call, is classified LowLevel.
C21_FiveLowLevelNames ==
    (Classified /\ IsLowLevelShape /\ callType # HighLevel) => callType = LowLevel

\* The call is L.f(...): a member access resolving to a function definition
\* on a receiver of library type.
IsLibraryCall ==
    /\ fnCall.vExpression.kind = "MemberAccess"
    /\ startsWith(fnCall.vExpression.vExpression.typeString, s_type_library_)
    /\ IsFunctionDefinition(ClassifierDecls, fnCall.vExpression.vReferencedDeclaration)

\* The body of the function holds a call that is high-level or low-level.
HasNestedExternalCall(ref) ==
    \E i \in 1..Len(ClassifierDecls[ref].body) :
        LET n == ClassifierDecls[ref].body[i] IN
        /\ n.kind = "FunctionCall"
        /\ getCallType(ClassifierDecls, n, 0) \in {HighLevel, LowLevel}

\* C22: a call on a library receiver is HighLevel exactly when the library
\* function has a return parameter and its body holds a nested high-level or
\* low-level call; otherwise it is Internal (the functions ping and pong,
\* whose classification does not return, and a member named call are left
\* aside).
C22_LibraryForwarding ==
    (Classified /\ IsLibraryCall /\ callType # Throws) =>
        LET ref == fnCall.vExpression.vReferencedDeclaration
            forwards == ClassifierDecls[ref].returns > 0 /\ HasNestedExternalCall(ref)
        IN /\ callType = HighLevel <=> forwards
           /\ (~forwards /\ fnCall.vExpression.memberName # "call") => callType = Internal

\* C28: getCallType returns on every call expression, also on a call of a
\* library function that reaches itself through library type references.
C28_GetCallTypeTerminates ==
    Classified => callType # Throws

---------------------------------------------------------------------------
(* Call-tree building: processFunction                                     *)

ignoreList ==
    << <<"n","o","d","e","_","m","o","d","u","l","e","s">>,
       <<"t","e","s","t">>,
       <<"t","e","s","t","s">>,
       <<"l","i","b">>,
       <<"s","c","r","i","p","t">>,
       <<"s","c","r","i","p","t","s">> >>

\* Faulty variant: a path is ignored when an entry occurs anywhere in it.
IsIgnoredAnywhere(path) == \E i \in 1..Len(ignoreList) : includes(path, ignoreList[i])

\* ignoreList.some((ignore) => path.startsWith(ignore))
IsIgnored(path) == \E i \in 1..Len(ignoreList) : startsWith(path, ignoreList[i])

\* Faulty variant: the callType of a child is Internal whatever the node.
ChildCallTypeInternal(decls, n, depth) == Internal

\* n instanceof FunctionCall ? getCallType(n) : CallType.Internal
ChildCallType(decls, n, depth) ==
    IF n.kind = "FunctionCall" THEN getCallType(decls, n, depth) ELSE Internal

\* A RecordItem of the call tree.
RecordItem(ast, children, ct) == [ast |-> ast, children |-> children, callType |-> ct]

\* result.some((x) => x.ast === ref)
HasItem(items, ref) == \E i \in 1..Len(items) : items[i].ast = ref

\* Faulty variant: a referenced definition becomes a leaf, its body is not
\* walked.
processFunctionNoRecursion(decls, fnDef, includeDeps, depth) ==
    IF depth > MaxStack THEN RangeError ELSE Returned(<<>>)

RECURSIVE processFunction(_, _, _, _)
RECURSIVE WalkLoop(_, _, _, _, _, _)
RECURSIVE PushChild(_, _, _, _, _, _, _, _)

\* The callback of fnDef.walk applied to the nodes of the body in order;
\* result is the list built so far.
WalkLoop(decls, fnDef, nodes, includeDeps, depth, items) ==
    IF nodes = <<>> THEN Returned(items)
    ELSE LET n == Head(nodes)
             ref == n.vReferencedDeclaration
         IN
         IF ref = NoDeclaration \/ ref = fnDef
         THEN WalkLoop(decls, fnDef, Tail(nodes), includeDeps, depth, items)
         ELSE IF decls[ref].kind \notin {"FunctionDefinition", "ModifierDefinition"}
         THEN WalkLoop(decls, fnDef, Tail(nodes), includeDeps, depth, items)
         ELSE IF HasItem(items, ref)
         THEN WalkLoop(decls, fnDef, Tail(nodes), includeDeps, depth, items)
         ELSE PushChild(decls, fnDef, nodes, includeDeps, depth, items,
                        IF ~includeDeps /\ IsIgnored(decls[ref].path)
                        THEN Returned(<<>>)
                        ELSE processFunction(decls, ref, includeDeps, depth + 1),
                        ChildCallType(decls, n, depth))

\* result.push({ ast, children, callType }) for the node at the head of
\* nodes, children and ct being what the two property expressions returned
\* or threw; then the rest of the walk.
PushChild(decls, fnDef, nodes, includeDeps, depth, items, children, ct) ==
    IF children.threw \/ ct = Throws THEN RangeError
    ELSE WalkLoop(decls, fnDef, Tail(nodes), includeDeps, depth,
                  Append(items, RecordItem(Head(nodes).vReferencedDeclaration,
                                           children.value, ct)))

\* processFunction(fnDef, includeDeps) entered at nesting depth `depth`.
processFunction(decls, fnDef, includeDeps, depth) ==
    IF depth > MaxStack THEN RangeError
    ELSE WalkLoop(decls, fnDef, decls[fnDef].body, includeDeps, depth, <<>>)

---------------------------------------------------------------------------
(* Specification of processFunction                                        *)

MaxBody == 2

p_src_A == <<"s","r","c","/","A",".","s","o","l">>
p_src_B == <<"s","r","c","/","B",".","s","o","l">>
p_lib_B == <<"l","i","b","/","B",".","s","o","l">>
p_src_C == <<"s","r","c","/","C",".","s","o","l">>
p_tests_C == <<"t","e","s","t","s","/","C",".","s","o","l">>
p_src_lib_M == <<"s","r","c","/","l","i","b","/","M",".","s","o","l">>

\* f(...): a call of the plain name f.
Call(f) == FunctionCall(Identifier(f, f, t_function_internal), t_uint256)
\* token.f(...): a call of f through a contract-typed receiver.
External(f) == FunctionCall(MemberAccess(token, f, f, t_function), t_uint256)
\* f without a call: the name of a modifier in the header, a function pointer.
Name(f) == Identifier(f, f, t_function_internal)
\* to.call(...): a reference that resolves to no declaration.
Unresolved == FunctionCall(MemberAccess(to, "call", NoDeclaration, t_function), s_bool)

BodyNodes ==
    {Call("A"), Call("B"), Call("C"), External("B"), Name("B"), Name("M"), Name("v"), Unresolved}

BodiesOfB == {<<>>, <<Call("A")>>, <<Call("C"), Name("M")>>, <<Call("B")>>}
BodiesOfC == {<<>>, <<Call("B")>>, <<Unresolved, External("A")>>}

Fn(name, path, body) ==
    Definition("FunctionDefinition", name, <<>>, "public", "nonpayable", TRUE, 0, path, body)

\* Functions A, B and C, modifier M (which calls C) and state variable v.
Program(bodyA, bodyB, pathB, bodyC, pathC) ==
    [ A |-> Fn("A", p_src_A, bodyA),
      B |-> Fn("B", pathB, bodyB),
      C |-> Fn("C", pathC, bodyC),
      M |-> Definition("ModifierDefinition", "M", <<>>, "internal", "nonpayable", TRUE, 0,
                       p_src_lib_M, <<Call("C")>>),
      v |-> Definition("VariableDeclaration", "v", <<>>, "internal", "mutable", TRUE, 0,
                       p_src_A, <<>>) ]

NoTree == <<>>

InitTree ==
    /\ pc = "tree"
    /\ root = "A"
    /\ \E n \in 0..MaxBody : \E bodyA \in [1..n -> BodyNodes] :
       \E bodyB \in BodiesOfB, bodyC \in BodiesOfC :
       \E pathB \in {p_src_B, p_lib_B}, pathC \in {p_src_C, p_tests_C} :
          program = Program(bodyA, bodyB, pathB, bodyC, pathC)
    /\ includeDepsArg \in BOOLEAN
    /\ tree = NoTree
    /\ SizeIdle /\ SlotsIdle /\ CalcIdle
    /\ CallIdle /\ ContractIdle /\ BatchIdle /\ HostIdle

\* One call processFunction(root, includeDeps): the list returned, or the
\* RangeError thrown, is kept in tree.
ProcessFunction ==
    /\ pc = "tree"
    /\ tree' = processFunction(program, root, includeDepsArg, 1)
    /\ pc' = "built"
    /\ UNCHANGED <<program, root, includeDepsArg, sizeVars, slotsVars, calcVars, callVars,
                   contractVars, batchVars, hostVars>>

NextTree == ProcessFunction

SpecTree == InitTree /\ [][NextTree]_vars

---------------------------------------------------------------------------
(* Claims about processFunction (checked under SpecTree)                   *)

Built == pc = "built"

IsCallable(ref) ==
    ref # NoDeclaration /\ program[ref].kind \in {"FunctionDefinition", "ModifierDefinition"}

\* The function and modifier definitions other than fn referenced by nodes,
\* each once, in the order of their first reference.
RECURSIVE FirstReferences(_, _, _)
FirstReferences(nodes, fn, acc) ==
    IF nodes = <<>> THEN acc
    ELSE LET ref == Head(nodes).vReferencedDeclaration IN
         IF IsCallable(ref) /\ ref # fn /\ ~Contains(acc, ref)
         THEN FirstReferences(Tail(nodes), fn, Append(acc, ref))
         ELSE FirstReferences(Tail(nodes), fn, acc)

Targets(fn) == FirstReferences(program[fn].body, fn, <<>>)

\* The first node of fn's body that references ref.
FirstReferencingNode(fn, ref) ==
    LET body == program[fn].body
        i == CHOOSE k \in 1..Len(body) :
                /\ body[k].vReferencedDeclaration = ref
                /\ \A j \in 1..(k - 1) : body[j].vReferencedDeclaration # ref
    IN body[i]

Asts(items) == [i \in 1..Len(items) |-> items[i].ast]

ClaimedPrefixes ==
    { <<"n","o","d","e","_","m","o","d","u","l","e","s">>,
      <<"t","e","s","t">>,
      <<"t","e","s","t","s">>,
      <<"l","i","b">>,
      <<"s","c","r","i","p","t">>,
      <<"s","c","r","i","p","t","s">> }

\* The target is one whose body the claim says is not entered.
ClaimedPruned(ref) ==
    ~includeDepsArg /\ \E prefix \in ClaimedPrefixes : startsWith(program[ref].path, prefix)

\* The definitions processFunction enters from f: none when f itself is not
\* entered.
Entered(f) == f = root \/ ~ClaimedPruned(f)
Successors(f) == IF Entered(f) THEN Range(Targets(f)) ELSE {}

\* The definitions reachable from the set S in any number of steps.
RECURSIVE ReachableFrom(_)
ReachableFrom(S) ==
    LET T == S \cup UNION {Successors(f) : f \in S} IN
    IF T = S THEN S ELSE ReachableFrom(T)

\* A cycle of two or more definitions is reachable from the root.
HasCycle == \E f \in ReachableFrom({root}) : f \in ReachableFrom(Successors(f))

\* A and B reference each other and B is not pruned.
MutualRecursion ==
    /\ root = "A"
    /\ "B" \in Successors("A")
    /\ "A" \in Successors("B")

\* The only definition the root references is itself.
OnlySelfReference ==
    /\ program[root].body # <<>>
    /\ \A i \in 1..Len(program[root].body) :
          program[root].body[i].vReferencedDeclaration = root

\* The body of the root holds a reference that resolves to no declaration.
HasUnresolvedReference ==
    \E i \in 1..Len(program[root].body) :
        program[root].body[i].vReferencedDeclaration = NoDeclaration

\* C17: a reference in the body that resolves to no declaration yields a
\* child with callType Internal and no children (a child that stands for no
\* referenced definition), and processFunction does not throw on it.
C17_UnresolvedReferenceIsInternalLeaf ==
    (Built /\ HasUnresolvedReference /\ ~HasCycle) =>
        /\ ~tree.threw
        /\ \E i \in 1..Len(tree.value) :
              /\ tree.value[i].ast \notin Range(Targets(root))
              /\ tree.value[i].callType = Internal
              /\ tree.value[i].children = <<>>

\* C18: processFunction on A never returns when A and B call each other
\* (the recursion passes every stack bound), returns no child for a function
\* that references only itself, and returns whenever no cycle of two or more
\* definitions is reachable.
C18_TerminatesExactlyWithoutCycle ==
    Built =>
        /\ MutualRecursion => tree.threw
        /\ OnlySelfReference => tree = Returned(<<>>)
        /\ ~HasCycle => ~tree.threw
        /\ HasCycle => tree.threw

\* A and B call each other and processFunction(A) has exceeded the stack.
C18_Witness ==
    /\ Built /\ MutualRecursion /\ tree.threw
    /\ program["B"].body = <<Call("A")>>

\* The children listed for fn are the definitions first-referenced in fn's
\* body, in order, each with the callType of its first referencing node, and
\* so on below every child whose body was entered.
RECURSIVE ChildrenAsReferenced(_, _)
ChildrenAsReferenced(fn, items) ==
    /\ Asts(items) = Targets(fn)
    /\ \A i \in 1..Len(items) :
          LET n == FirstReferencingNode(fn, items[i].ast) IN
          /\ items[i].callType =
                IF n.kind = "FunctionCall" THEN getCallType(program, n, 0) ELSE Internal
          /\ ClaimedPruned(items[i].ast) \/ ChildrenAsReferenced(items[i].ast, items[i].children)

\* C19: the children of a node are the distinct function and modifier
\* definitions referenced in its body other than itself, in order of first
\* reference; callType is the classification of the first referencing node
\* when that is a call, Internal otherwise.
C19_ChildrenAreFirstReferences ==
    (Built /\ ~tree.threw) => ChildrenAsReferenced(root, tree.value)

\* A references B first through token.B() and then by name; B is HighLevel,
\* and C is a child of A and again a child of B.
C19_Witness ==
    /\ Built /\ ~tree.threw
    /\ program["A"].body = <<External("B"), Call("C")>>
    /\ Asts(tree.value) = <<"B", "C">>
    /\ tree.value[1].callType = HighLevel
    /\ Contains(Asts(tree.value[1].children), "C")

\* Every referenced definition is a child; below a pruned child there is
\* nothing, below any other the result of processFunction on it.
RECURSIVE ChildrenPrunedAsClaimed(_, _, _)
ChildrenPrunedAsClaimed(fn, items, depth) ==
    /\ Range(Targets(fn)) \subseteq Range(Asts(items))
    /\ \A i \in 1..Len(items) :
          IF ClaimedPruned(items[i].ast)
          THEN items[i].children = <<>>
          ELSE /\ items[i].children =
                     processFunction(program, items[i].ast, includeDepsArg, depth + 1).value
               /\ ChildrenPrunedAsClaimed(items[i].ast, items[i].children, depth + 1)

\* C20: a referenced target is always a child; its children are empty
\* without entering its body exactly when includeDeps is false and its
\* source path starts with an ignored prefix, and are processFunction of the
\* target otherwise.
C20_PrunedExactlyWhenIgnored ==
    (Built /\ ~tree.threw) => ChildrenPrunedAsClaimed(root, tree.value, 1)

\* With includeDeps false, B in lib/B.sol is a leaf although it calls A, and
\* M in src/lib/M.sol has its child C.
C20_Witness ==
    /\ Built /\ ~tree.threw /\ ~includeDepsArg
    /\ program["B"].path = p_lib_B /\ program["B"].body = <<Call("A")>>
    /\ Asts(tree.value) = <<"B", "M">>
    /\ tree.value[1].children = <<>>
    /\ Asts(tree.value[2].children) = <<"C">>

---------------------------------------------------------------------------
(* Root selection: signatureEquals, processContract                        *)

\* A parameter of a function: a VariableDeclaration node. type is the name
\* of the node's class, typeString the Solidity type of the parameter.
Parameter(ts) == [type |-> "VariableDeclaration", typeString |-> ts]

\* !o.name : the object has no name property, or an empty one.
HasNoName(o) == "name" \notin DOMAIN o \/ o.name = ""

\* a.vParameters.vParameters.map((x) => x.type)
ParameterTypesOf(o) == [i \in 1..Len(o.parameters) |-> o.parameters[i].type]

signatureEquals(a, b) ==
    IF HasNoName(a) \/ HasNoName(b) THEN FALSE
    ELSE IF a.name # b.name THEN FALSE
    ELSE IF ParameterTypesOf(a) # ParameterTypesOf(b) THEN FALSE
    ELSE IF a.visibility # b.visibility THEN FALSE
    ELSE a.stateMutability = b.stateMutability

\* A ContractDefinition with its functions (names of definitions).
ContractWithFunctions(bases, stateVars, fns) ==
    [vLinearizedBaseContracts |-> bases, vStateVariables |-> stateVars, vFunctions |-> fns]

reverse(xs) == [i \in 1..Len(xs) |-> xs[Len(xs) + 1 - i]]

\* Faulty variant: pure and view functions pass whatever includeAll is.
PassesFiltersAnyMutability(decls, f, includeAll) ==
    /\ decls[f].implemented
    /\ decls[f].visibility \in {"external", "public"}

\* The filter on implemented and the two `continue` tests of the loop.
PassesFilters(decls, f, includeAll) ==
    /\ decls[f].implemented
    /\ decls[f].visibility \in {"external", "public"}
    /\ ~(~includeAll /\ decls[f].stateMutability \in {"pure", "view"})

\* The loop of processContract over allFunctions; items is
\* result['vFunctions'] so far. signatureEquals receives the items of that
\* list, which are the records { ast, children }.
RECURSIVE FunctionsLoop(_, _, _, _, _, _)
RECURSIVE PushRoot(_, _, _, _, _, _, _)
FunctionsLoop(decls, fns, includeAll, includeDeps, depth, items) ==
    IF fns = <<>> THEN Returned(items)
    ELSE LET fnDef == Head(fns) IN
         IF ~PassesFilters(decls, fnDef, includeAll)
         THEN FunctionsLoop(decls, Tail(fns), includeAll, includeDeps, depth, items)
         ELSE IF \E i \in 1..Len(items) : signatureEquals(items[i], decls[fnDef])
         THEN FunctionsLoop(decls, Tail(fns), includeAll, includeDeps, depth, items)
         ELSE PushRoot(decls, fns, includeAll, includeDeps, depth, items,
                       processFunction(decls, Head(fns), includeDeps, depth + 1))

\* result['vFunctions'].push({ ast: fnDef, children }), children being what
\* processFunction(fnDef, includeDeps) returned or threw; then the rest of
\* the loop.
PushRoot(decls, fns, includeAll, includeDeps, depth, items, children) ==
    IF children.threw THEN RangeError
    ELSE FunctionsLoop(decls, Tail(fns), includeAll, includeDeps, depth,
                       Append(items, [ast |-> Head(fns), children |-> children.value]))

\* The record returned by processContract, unless the loop threw.
ContractResult(own, fns) ==
    IF fns.threw THEN RangeError
    ELSE Returned([vStateVariables |-> own, vFunctions |-> fns.value])

\* processContract(contract, includeAll, includeDeps) in hierarchy h: the
\* returned record, of which vStateVariables and vFunctions are kept.
processContract(h, c, decls, includeAll, includeDeps, depth) ==
    ContractResult(reverse(getDefinitions(h, c, "vStateVariables", FALSE)),
                   FunctionsLoop(decls, reverse(getDefinitions(h, c, "vFunctions", TRUE)),
                                 includeAll, includeDeps, depth, <<>>))

---------------------------------------------------------------------------
(* Specification of processContract                                        *)

MaxFns == 2

p_lib_H == <<"l","i","b","/","H",".","s","o","l">>

ContractFn(name, parameters, visibility, stateMutability, implemented, body) ==
    Definition("FunctionDefinition", name, parameters, visibility, stateMutability, implemented,
               0, p_src_A, body)

f_plain == ContractFn("f", <<>>, "public", "nonpayable", TRUE, <<Call("H")>>)
f_uint == ContractFn("f", <<Parameter(t_uint256)>>, "public", "nonpayable", TRUE, <<>>)
f_address == ContractFn("f", <<Parameter(s_address)>>, "public", "nonpayable", TRUE, <<>>)
f_external == ContractFn("f", <<>>, "external", "nonpayable", TRUE, <<>>)
f_view == ContractFn("f", <<>>, "public", "view", TRUE, <<>>)
g_internal == ContractFn("g", <<>>, "internal", "nonpayable", TRUE, <<>>)
g_pure == ContractFn("g", <<>>, "external", "pure", TRUE, <<>>)
g_view == ContractFn("g", <<>>, "external", "view", TRUE, <<>>)
h_abstract == ContractFn("h", <<>>, "public", "payable", FALSE, <<>>)
constructor == ContractFn("", <<>>, "public", "nonpayable", TRUE, <<>>)

FnPool ==
    {f_plain, f_uint, f_address, f_external, f_view, g_internal, g_pure, h_abstract,
     constructor}

\* The functions declared by the bases: none; B with f(); B with f(uint256)
\* and g() view; B with f() and A with f().
BaseFns ==
    { [B |-> <<>>, A |-> <<>>],
      [B |-> <<f_plain>>, A |-> <<>>],
      [B |-> <<f_uint, g_view>>, A |-> <<>>],
      [B |-> <<f_plain>>, A |-> <<f_plain>>] }

\* Name and parameter types, which differ between the functions of one
\* contract.
Overload(fn) == <<fn.name, [i \in 1..Len(fn.parameters) |-> fn.parameters[i].typeString]>>
DistinctOverloads(l) == \A i, j \in 1..Len(l) : i # j => Overload(l[i]) # Overload(l[j])

OwnIds == <<"C1", "C2", "C3">>
BIds == <<"B1", "B2">>
AIds == <<"A1">>
Ids(names, l) == [i \in 1..Len(l) |-> names[i]]

\* Free function H, called by f().
FreeFn == Definition("FunctionDefinition", "H", <<>>, "internal", "nonpayable", TRUE, 0,
                     p_lib_H, <<>>)

\* The definitions of the compiled sources, by name.
ProgramOf(own, base) ==
    [id \in Range(Ids(OwnIds, own)) \cup Range(Ids(BIds, base.B)) \cup Range(Ids(AIds, base.A))
           \cup {"H"} |->
        IF id = "H" THEN FreeFn
        ELSE IF \E i \in 1..Len(own) : OwnIds[i] = id
             THEN own[CHOOSE i \in 1..Len(own) : OwnIds[i] = id]
        ELSE IF \E i \in 1..Len(base.B) : BIds[i] = id
             THEN base.B[CHOOSE i \in 1..Len(base.B) : BIds[i] = id]
        ELSE base.A[CHOOSE i \in 1..Len(base.A) : AIds[i] = id]]

\* contract C is B, B is A: the linearized bases start with the contract
\* itself.
HierarchyOf(own, base) ==
    [ C |-> ContractWithFunctions(<<"C", "B", "A">>, <<>>, Ids(OwnIds, own)),
      B |-> ContractWithFunctions(<<"B", "A">>, <<>>, Ids(BIds, base.B)),
      A |-> ContractWithFunctions(<<"A">>, <<>>, Ids(AIds, base.A)) ]

NoRoots == <<>>

InitContract ==
    /\ pc = "contract"
    /\ contract = "C"
    /\ \E n \in 0..MaxFns : \E own \in [1..n -> FnPool] : \E base \in BaseFns :
          /\ DistinctOverloads(own)
          /\ hierarchy = HierarchyOf(own, base)
          /\ program = ProgramOf(own, base)
    /\ includeAllArg \in BOOLEAN
    /\ includeDepsArg \in BOOLEAN
    /\ roots = NoRoots
    /\ result = NoResult
    /\ root = "none" /\ tree = NoTree
    /\ SizeIdle /\ CalcIdle /\ CallIdle /\ BatchIdle /\ HostIdle

\* One call processContract(contract, includeAll, includeDeps).
ProcessContract ==
    /\ pc = "contract"
    /\ roots' = processContract(hierarchy, contract, program, includeAllArg, includeDepsArg, 1)
    /\ pc' = "processed"
    /\ UNCHANGED <<includeAllArg, program, root, includeDepsArg, tree, sizeVars, slotsVars,
                   calcVars, callVars, batchVars, hostVars>>

NextContract == ProcessContract

SpecContract == InitContract /\ [][NextContract]_vars

---------------------------------------------------------------------------
(* Claims about processContract (checked under SpecContract)               *)

Processed == pc = "processed"

\* The functions of the contract and of its linearized bases, most derived
\* first.
AllFunctions == reverse(getDefinitions(hierarchy, contract, "vFunctions", TRUE))

Qualifies(f) ==
    /\ program[f].implemented
    /\ program[f].visibility \in {"public", "external"}
    /\ includeAllArg \/ program[f].stateMutability \notin {"pure", "view"}

\* Same name, same list of parameter types, same visibility and same state
\* mutability.
SameSignature(f, g) ==
    /\ program[f].name = program[g].name
    /\ Overload(program[f]) = Overload(program[g])
    /\ program[f].visibility = program[g].visibility
    /\ program[f].stateMutability = program[g].stateMutability

RootAsts == Asts(roots.value.vFunctions)

\* C14: a function of the contract or of a linearized base is a root, itself
\* or through the function of equal signature kept in its place, if and only
\* if it is implemented, public or external, and includeAll is true or it is
\* neither pure nor view.
C14_RootsAreQualifyingFunctions ==
    (Processed /\ ~roots.threw) =>
        \A f \in Range(AllFunctions) :
            /\ Contains(RootAsts, f) => Qualifies(f)
            /\ Qualifies(f) =>
                  \/ Contains(RootAsts, f)
                  \/ \E r \in Range(RootAsts) : SameSignature(r, f)

\* With includeAll false a public view function and an internal function of
\* C are left out and f(uint256) of base B is a root.
C14_Witness ==
    /\ Processed /\ ~roots.threw /\ ~includeAllArg
    /\ {"C1", "C2", "B1"} \subseteq DOMAIN program
    /\ program["C1"] = f_view /\ program["C2"] = g_internal
    /\ program["B1"] = f_uint
    /\ RootAsts = <<"B1">>

\* The qualifying functions with every function dropped that has the
\* signature of one before it.
RECURSIVE ClaimedRoots(_, _)
ClaimedRoots(fns, kept) ==
    IF fns = <<>> THEN kept
    ELSE IF Qualifies(Head(fns)) /\ ~\E i \in 1..Len(kept) : SameSignature(kept[i], Head(fns))
         THEN ClaimedRoots(Tail(fns), Append(kept, Head(fns)))
         ELSE ClaimedRoots(Tail(fns), kept)

\* C15: qualifying functions of equal name, parameter types, visibility and
\* state mutability are collapsed into the most derived of them, and
\* overloads that differ in a parameter type both stay roots.
C15_RootsAreDeduplicated ==
    (Processed /\ ~roots.threw) => RootAsts = ClaimedRoots(AllFunctions, <<>>)

---------------------------------------------------------------------------
(* Batch processing: processCompilerOutput                                 *)

\* error.message of the RangeError of the engine and of a failed write.
StackMessage == "Maximum call stack size exceeded"
WriteMessage == "ENOSPC: no space left on device, write"

\* The lists of processCompilerOutput while it runs; threw: an exception has
\* left the function.
NoSummary ==
    [successful |-> <<>>, failed |-> <<>>, skipped |-> <<>>, contractsInfo |-> <<>>,
     threw |-> FALSE]

\* !contract.fullyImplemented || contract.abstract || contract.kind !== 'contract'
IsSkippedKind(ct) == ~ct.fullyImplemented \/ ct.abstract \/ ct.kind # "contract"

\* Faulty variant: no try/catch around the body of the loop; r is what
\* processContract returned or threw.
TryContractNoCatch(acc, ct, fs, r) ==
    IF r.threw THEN [acc EXCEPT !.threw = TRUE]
    ELSE IF Len(r.value.vFunctions) > 0
    THEN IF ct.name \in fs.diagrams THEN [acc EXCEPT !.threw = TRUE]
         ELSE [acc EXCEPT !.contractsInfo = Append(@, ct.name),
                          !.successful = Append(@, ct.name)]
    ELSE [acc EXCEPT !.skipped = Append(@, ct.name)]

\* The try/catch of the loop for one contract, r being what processContract
\* returned or threw: for a contract with root functions processSlots and
\* saveHTMLDiagrams (which writes files and throws when a write fails).
TryContract(acc, ct, fs, r) ==
    IF r.threw
    THEN [acc EXCEPT !.failed = Append(@, [name |-> ct.name, error |-> StackMessage])]
    ELSE IF Len(r.value.vFunctions) > 0
    THEN LET contractSlots == processSlots(ct.hierarchy, "C") IN
         IF ct.name \in fs.diagrams
         THEN [acc EXCEPT !.failed = Append(@, [name |-> ct.name, error |-> WriteMessage])]
         ELSE [acc EXCEPT !.contractsInfo = Append(@, ct.name),
                          !.successful = Append(@, ct.name)]
    ELSE [acc EXCEPT !.skipped = Append(@, ct.name)]

\* The body of the loop for one contract.
ContractStep(acc, ct, fs, includeAll, includeDeps) ==
    TryContract(acc, ct, fs,
                processContract(ct.hierarchy, "C", ct.program, includeAll, includeDeps, 1))

\* The inner loop over the contracts of one source unit.
RECURSIVE ContractsLoop(_, _, _, _, _)
ContractsLoop(acc, cts, fs, includeAll, includeDeps) ==
    IF cts = <<>> \/ acc.threw THEN acc
    ELSE IF IsSkippedKind(Head(cts))
    THEN ContractsLoop(acc, Tail(cts), fs, includeAll, includeDeps)
    ELSE ContractsLoop(ContractStep(acc, Head(cts), fs, includeAll, includeDeps), Tail(cts), fs,
                       includeAll, includeDeps)

\* The outer loop over the source units.
RECURSIVE UnitsLoop(_, _, _, _, _)
UnitsLoop(acc, units, fs, includeAll, includeDeps) ==
    IF units = <<>> \/ acc.threw THEN acc
    ELSE IF IsIgnored(Head(units).absolutePath)
    THEN UnitsLoop(acc, Tail(units), fs, includeAll, includeDeps)
    ELSE UnitsLoop(ContractsLoop(acc, Head(units).vContracts, fs, includeAll, includeDeps),
                   Tail(units), fs, includeAll, includeDeps)

\* saveNavigationIndex when a contract was successful, then the return.
SaveIndex(acc, fs) ==
    IF acc.threw THEN acc
    ELSE IF Len(acc.contractsInfo) > 0 /\ fs.index THEN [acc EXCEPT !.threw = TRUE]
    ELSE acc

\* processCompilerOutput on the source units read: the summary returned, or
\* threw when saveNavigationIndex fails.
processCompilerOutput(units, fs, includeAll, includeDeps) ==
    SaveIndex(UnitsLoop(NoSummary, units, fs, includeAll, includeDeps), fs)

---------------------------------------------------------------------------
(* Specification of processCompilerOutput                                  *)

MaxContracts == 2

p_test_T == <<"t","e","s","t","/","T",".","s","o","l">>

\* X and Y call each other; r() calls X.
r_cyclic == ContractFn("r", <<>>, "external", "nonpayable", TRUE, <<Call("X")>>)
CyclicProgram ==
    [ C1 |-> r_cyclic,
      X |-> Fn("X", p_src_A, <<Call("Y")>>),
      Y |-> Fn("Y", p_src_A, <<Call("X")>>) ]
CyclicHierarchy ==
    [ C |-> ContractWithFunctions(<<"C">>, <<>>, <<"C1">>) ]

NoBase == [B |-> <<>>, A |-> <<>>]

\* A ContractDefinition of the compiler output with what it compiles to.
CompiledContract(kind, abstract, fullyImplemented, h, decls) ==
    [name |-> "", kind |-> kind, abstract |-> abstract, fullyImplemented |-> fullyImplemented,
     hierarchy |-> h, program |-> decls]

\* A contract with a root function, one with a view function only, one
\* whose root reaches the cycle X, Y; an abstract contract, an interface, a
\* library and a contract that is not fully implemented.
ContractPool ==
    { CompiledContract("contract", FALSE, TRUE, HierarchyOf(<<f_plain>>, NoBase),
                       ProgramOf(<<f_plain>>, NoBase)),
      CompiledContract("contract", FALSE, TRUE, HierarchyOf(<<f_view>>, NoBase),
                       ProgramOf(<<f_view>>, NoBase)),
      CompiledContract("contract", FALSE, TRUE, CyclicHierarchy, CyclicProgram),
      CompiledContract("contract", TRUE, TRUE, HierarchyOf(<<f_plain>>, NoBase),
                       ProgramOf(<<f_plain>>, NoBase)),
      CompiledContract("interface", FALSE, FALSE, HierarchyOf(<<h_abstract>>, NoBase),
                       ProgramOf(<<h_abstract>>, NoBase)),
      CompiledContract("library", FALSE, TRUE, HierarchyOf(<<f_plain>>, NoBase),
                       ProgramOf(<<f_plain>>, NoBase)),
      CompiledContract("contract", FALSE, FALSE, HierarchyOf(<<f_plain, h_abstract>>, NoBase),
                       ProgramOf(<<f_plain, h_abstract>>, NoBase)) }

ContractNames == <<"K1", "K2", "K3", "K4">>

\* Two source units: the first holds the first k contracts of l, the second
\* the others; the contracts are named in order.
SourceUnits(l, k, path2) ==
    LET named == [i \in 1..Len(l) |-> [l[i] EXCEPT !.name = ContractNames[i]]] IN
    << [absolutePath |-> p_src_A, vContracts |-> SubSeq(named, 1, k)],
       [absolutePath |-> path2, vContracts |-> SubSeq(named, k + 1, Len(l))] >>

InitBatch ==
    /\ pc = "batch"
    /\ \E n \in 0..MaxContracts : \E l \in [1..n -> ContractPool] : \E k \in 0..n :
       \E path2 \in {p_src_B, p_test_T} :
          /\ asts = SourceUnits(l, k, path2)
          /\ \E failing \in {{}} \cup {{ContractNames[i]} : i \in 1..n} :
             \E index \in BOOLEAN :
                fsErrors = [diagrams |-> failing, index |-> index]
    /\ includeAllArg \in BOOLEAN
    /\ includeDepsArg = FALSE
    /\ outcome = NoSummary
    /\ roots = NoRoots
    /\ SizeIdle /\ SlotsIdle /\ CalcIdle /\ CallIdle /\ TreeIdle /\ HostIdle

\* One call processCompilerOutput(compilerOutput, outDir, _, includeAll,
\* includeDeps).
ProcessCompilerOutput ==
    /\ pc = "batch"
    /\ outcome' = processCompilerOutput(asts, fsErrors, includeAllArg, includeDepsArg)
    /\ pc' = "summarised"
    /\ UNCHANGED <<asts, fsErrors, includeAllArg, roots, sizeVars, slotsVars, calcVars, callVars,
                   treeVars, hostVars>>

NextBatch == ProcessCompilerOutput

SpecBatch == InitBatch /\ [][NextBatch]_vars

---------------------------------------------------------------------------
(* Claims about processCompilerOutput (checked under SpecBatch)            *)

Summarised == pc = "summarised"

\* The contracts of the source units whose path starts with no ignored
\* prefix, and all contracts.
ContractsOfKeptUnits ==
    UNION { { asts[u].vContracts[i] : i \in 1..Len(asts[u].vContracts) } :
            u \in { v \in 1..Len(asts) :
                      ~\E prefix \in ClaimedPrefixes : startsWith(asts[v].absolutePath, prefix) } }
AllContracts ==
    UNION { { asts[u].vContracts[i] : i \in 1..Len(asts[u].vContracts) } : u \in 1..Len(asts) }
\* Eligible: fully implemented, not abstract, of kind contract, source path
\* not ignored.
IsEligible(ct) ==
    /\ ct \in ContractsOfKeptUnits
    /\ ct.fullyImplemented /\ ~ct.abstract /\ ct.kind = "contract"

Occurrences(xs, x) == Cardinality({i \in 1..Len(xs) : xs[i] = x})
FailedNames == [i \in 1..Len(outcome.failed) |-> outcome.failed[i].name]

\* The number of entries a contract has in the three lists together.
Entries(ct) ==
    Occurrences(outcome.successful, ct.name) + Occurrences(FailedNames, ct.name)
        + Occurrences(outcome.skipped, ct.name)

\* The list the contract belongs to.
RootsOf(ct) ==
    processContract(ct.hierarchy, "C", ct.program, includeAllArg, includeDepsArg, 1)
ExpectedList(ct) ==
    IF RootsOf(ct).threw THEN "failed"
    ELSE IF RootsOf(ct).value.vFunctions = <<>> THEN "skipped"
    ELSE IF ct.name \in fsErrors.diagrams THEN "failed"
    ELSE "successful"

\* C16: every eligible contract has exactly one entry in successful, skipped
\* (no root function) and failed (name and message of the exception caught)
\* together, also when an earlier contract failed, and no other contract has
\* an entry; the call itself fails only when the index cannot be written.
C16_EveryContractInOneList ==
    Summarised =>
        /\ outcome.threw => (fsErrors.index /\ outcome.successful # <<>>)
        /\ \A ct \in AllContracts :
              /\ Entries(ct) = IF IsEligible(ct) THEN 1 ELSE 0
              /\ IsEligible(ct) =>
                    CASE ExpectedList(ct) = "successful" ->
                            Occurrences(outcome.successful, ct.name) = 1
                      [] ExpectedList(ct) = "skipped" ->
                            Occurrences(outcome.skipped, ct.name) = 1
                      [] OTHER ->
                            \E i \in 1..Len(outcome.failed) :
                               /\ outcome.failed[i].name = ct.name
                               /\ outcome.failed[i].error \in {StackMessage, WriteMessage}

\* The first contract failed on the call stack and the one after it, in the
\* same source unit, is successful.
C16_Witness ==
    /\ Summarised /\ ~outcome.threw
    /\ outcome.failed = <<[name |-> "K1", error |-> StackMessage]>>
    /\ outcome.successful = <<"K2">>
    /\ Len(asts[1].vContracts) = 2

---------------------------------------------------------------------------
(* Single-file preview: the contract loop of generateCallGraph             *)

NoEligibleMessage == "No contracts with eligible functions in this file."
NoPrimaryContract == "undefined"

\* stub(message, showBuild): the placeholder result; it has no contracts and
\* an empty errors list.
stub(message, showBuild) ==
    [html |-> [page |-> "stub", of |-> message, showBuild |-> showBuild],
     contracts |-> <<>>, errors |-> <<>>, empty |-> TRUE,
     primaryContractName |-> NoPrimaryContract]

\* getFunctionName(fnDef) for named functions and constructors.
getFunctionName(fnDef) == IF fnDef.name # "" THEN fnDef.name ELSE "constructor"

\* The entry pushed onto contracts (elementSummary counts events, structs,
\* errors, enums and value types, which the contracts here do not declare).
GraphEntry(ct, processed) ==
    [name |-> ct.name,
     functions |-> [i \in 1..Len(processed.vFunctions) |->
                      [name |-> getFunctionName(ct.program[processed.vFunctions[i].ast]),
                       callType |-> Internal]]]

\* The result returned from inside the loop for a contract with root
\* functions. html is the rendering of the roots and of the slot data of
\* processSlots (generateCombinedHTMLTree, sanitizeGraphHtml, injectPrism),
\* kept as the name of the contract rendered.
GraphResult(ct, entries, errs) ==
    [html |-> [page |-> "graph", of |-> ct.name, showBuild |-> FALSE],
     contracts |-> entries, errors |-> errs, empty |-> Len(entries) = 0,
     primaryContractName |-> entries[1].name]

RECURSIVE GraphLoop(_, _, _, _, _)
\* The try/catch of the loop for the first contract of cts, processed being
\* what processContract returned or threw.
GraphStep(cts, entries, errs, includeAll, includeDeps, processed) ==
    IF processed.threw
    THEN GraphLoop(Tail(cts), entries, Append(errs, StackMessage), includeAll, includeDeps)
    ELSE IF Len(processed.value.vFunctions) = 0
    THEN GraphLoop(Tail(cts), entries, errs, includeAll, includeDeps)
    ELSE GraphResult(Head(cts), Append(entries, GraphEntry(Head(cts), processed.value)), errs)

\* The loop over the contract definitions of the target unit and the two
\* returns after it.
GraphLoop(cts, entries, errs, includeAll, includeDeps) ==
    IF cts = <<>>
    THEN IF Len(entries) = 0 THEN stub(NoEligibleMessage, FALSE)
         ELSE [html |-> [page |-> "unknown", of |-> "", showBuild |-> FALSE],
               contracts |-> entries, errors |-> errs, empty |-> FALSE,
               primaryContractName |-> entries[1].name]
    ELSE IF Head(cts).kind # "contract"
    THEN GraphLoop(Tail(cts), entries, errs, includeAll, includeDeps)
    ELSE GraphStep(cts, entries, errs, includeAll, includeDeps,
                   processContract(Head(cts).hierarchy, "C", Head(cts).program,
                                   includeAll, includeDeps, 1))

\* generateCallGraph once the target source unit has been found.
generateCallGraph(unit, includeAll, includeDeps) ==
    GraphLoop(unit, <<>>, <<>>, includeAll, includeDeps)

---------------------------------------------------------------------------
(* Specification of generateCallGraph on a target unit                     *)

NoGraph == <<>>

InitGraph ==
    /\ pc = "graph"
    /\ \E n \in 0..MaxContracts : \E l \in [1..n -> ContractPool] :
          targetUnit = [i \in 1..n |-> [l[i] EXCEPT !.name = ContractNames[i]]]
    /\ includeAllArg \in BOOLEAN
    /\ includeDepsArg \in BOOLEAN
    /\ generated = NoGraph
    /\ roots = NoRoots
    /\ CoreIdle /\ BatchIdle /\ CacheIdle /\ WebviewIdle

\* One call generateCallGraph(options) on a file present in the build-info.
GenerateCallGraph ==
    /\ pc = "graph"
    /\ generated' = generateCallGraph(targetUnit, includeAllArg, includeDepsArg)
    /\ pc' = "generated"
    /\ UNCHANGED <<targetUnit, coreVars, cacheVars, webviewVars>>

NextGraph == GenerateCallGraph

SpecGraph == InitGraph /\ [][NextGraph]_vars

---------------------------------------------------------------------------
(* Claims about generateCallGraph (checked under SpecGraph)                *)

Generated == pc = "generated"

ProcessedOf(i) ==
    processContract(targetUnit[i].hierarchy, "C", targetUnit[i].program,
                    includeAllArg, includeDepsArg, 1)

\* Processing the i-th contract throws; it has a root function and does not.
ThrowsAt(i) == targetUnit[i].kind = "contract" /\ ProcessedOf(i).threw
SucceedsAt(i) ==
    /\ targetUnit[i].kind = "contract"
    /\ ~ProcessedOf(i).threw
    /\ ProcessedOf(i).value.vFunctions # <<>>

\* The contracts the loop reaches: those up to the first that succeeds.
IsReached(i) == \A j \in 1..(i - 1) : ~SucceedsAt(j)

\* C30: the message of every contract whose processing throws is in the
\* errors list of the returned result, whether a later contract succeeds or
\* none does; and the result is that of the first contract in file order that
\* has a root function and processes without throwing.
C30_ThrownMessagesAreReturned ==
    Generated =>
        /\ \A i \in 1..Len(targetUnit) :
              (IsReached(i) /\ ThrowsAt(i)) => Contains(generated.errors, StackMessage)
        /\ \A i \in 1..Len(targetUnit) :
              (IsReached(i) /\ SucceedsAt(i)) =>
                 /\ generated.html = [page |-> "graph", of |-> targetUnit[i].name,
                                      showBuild |-> FALSE]
                 /\ generated.primaryContractName = targetUnit[i].name
                 /\ ~generated.empty

---------------------------------------------------------------------------
(* Single-file preview: the AST read-cache of generateCallGraph            *)

\* The files of the build-info directory, in readdir order.
BuildInfoFiles == <<"build-info/a.json", "build-info/b.json">>
NoFile == "null"

\* What a build-info file can hold: sources with ASTs the reader accepts,
\* sources whose AST the reader rejects, and no output.sources at all.
ContentKinds == {"ast", "badast", "nosources"}
NoContent == [version |-> 0, kind |-> "nosources"]

\* astCache as declared: undefined.
NoEntry ==
    [defined |-> FALSE, file |-> NoFile, mtimeMs |-> undefined, asts |-> <<>>,
     sourceKeys |-> <<>>]

\* The content of the version-th write.
ContentOf(h, version) == [version |-> version, kind |-> h[version].kind]

\* reader.read({ sources: solcSources }) || [], [] when the reader throws:
\* the source units of that content.
ReadAsts(content) ==
    IF content.kind = "ast"
    THEN <<[absolutePath |-> p_src_A, parsedFrom |-> content.version]>>
    ELSE <<>>

\* Object.keys(solcSources): the sources that carry an ast property.
SourceKeys(content) == IF content.kind = "nosources" THEN <<>> ELSE <<p_src_A>>

\* The positions of the files present in the directory.
PresentFiles(d) == {i \in 1..Len(BuildInfoFiles) : d[BuildInfoFiles[i]] # 0}

\* findLatestBuildInfoFile: the file with the largest mtime, the first in
\* readdir order among equals (the sort is stable), null for no file.
findLatestBuildInfoFile(h, d) ==
    IF PresentFiles(d) = {} THEN NoFile
    ELSE LET mtime(i) == h[d[BuildInfoFiles[i]]].mtimeMs
             first == CHOOSE i \in PresentFiles(d) :
                         \A j \in PresentFiles(d) :
                            mtime(j) < mtime(i) \/ (mtime(j) = mtime(i) /\ i <= j)
         IN BuildInfoFiles[first]

\* Faulty variant: an entry of the same file is a hit whatever its mtime.
IsCacheHitAnyMtime(cache, latestFile, stat) ==
    stat # undefined /\ cache.defined /\ cache.file = latestFile

\* stat && astCache && astCache.file === latestFile
\*      && astCache.mtimeMs === stat.mtimeMs
IsCacheHit(cache, latestFile, stat) ==
    stat # undefined /\ cache.defined /\ cache.file = latestFile /\ cache.mtimeMs = stat

\* The part of getCachedOrReadAsts after the await of stat: what it returns
\* (parsed: the reader was run) and the value of astCache after it.
getCachedOrReadAsts(cache, latestFile, stat, sourcesSection) ==
    IF IsCacheHit(cache, latestFile, stat)
    THEN [asts |-> cache.asts, debugSourceKeys |-> cache.sourceKeys, parsed |-> FALSE,
          astCache |-> cache]
    ELSE [asts |-> ReadAsts(sourcesSection),
          debugSourceKeys |-> SourceKeys(sourcesSection),
          parsed |-> TRUE,
          astCache |-> IF stat # undefined
                       THEN [defined |-> TRUE, file |-> latestFile, mtimeMs |-> stat,
                             asts |-> ReadAsts(sourcesSection),
                             sourceKeys |-> SourceKeys(sourcesSection)]
                       ELSE cache]

---------------------------------------------------------------------------
(* Specification of the read-cache under concurrent calls and rebuilds     *)

\* Largest number of times a build-info file is written.
MaxWrites == 2

\* The generateCallGraph calls in flight.
Callers == {"c1", "c2"}

IdleCaller ==
    [pc |-> "idle", latest |-> NoFile, raw |-> NoContent, stat |-> undefined,
     asts |-> <<>>, parsed |-> FALSE, stubbed |-> FALSE]

\* The time of the latest write, 0 before the first.
Clock == IF history = <<>> THEN 0 ELSE history[Len(history)].mtimeMs

InitCache ==
    /\ pc = "cache"
    /\ history = <<>>
    /\ disk = [f \in Range(BuildInfoFiles) |-> 0]
    /\ astCache = NoEntry
    /\ callers = [p \in Callers |-> IdleCaller]
    /\ includeAllArg = FALSE /\ roots = <<>>
    /\ CoreIdle /\ BatchIdle /\ GraphIdle /\ WebviewIdle

\* forge build writes a build-info file: a new one, or an existing one again.
\* Two files can be written within the same millisecond.
WriteFile(f, kind, t) ==
    /\ pc = "cache"
    /\ Len(history) < MaxWrites
    /\ t >= 1
    /\ ~\E v \in 1..Len(history) : history[v].file = f /\ history[v].mtimeMs = t
    /\ history' = Append(history, [file |-> f, mtimeMs |-> t, kind |-> kind])
    /\ disk' = [disk EXCEPT ![f] = Len(history) + 1]
    /\ UNCHANGED <<pc, astCache, callers, coreVars, graphVars, webviewVars>>

\* forge clean removes a build-info file.
DeleteFile(f) ==
    /\ pc = "cache"
    /\ disk[f] # 0
    /\ disk' = [disk EXCEPT ![f] = 0]
    /\ UNCHANGED <<pc, history, astCache, callers, coreVars, graphVars, webviewVars>>

\* A call returns a stub before it reaches the cache.
ReturnStub(p) ==
    callers' = [callers EXCEPT ![p].pc = "returned", ![p].stubbed = TRUE]

\* generateCallGraph up to the first await that settles: the latest
\* build-info file is looked up.
FindLatest(p) ==
    /\ pc = "cache"
    /\ callers[p].pc = "idle"
    /\ LET latest == findLatestBuildInfoFile(history, disk) IN
       IF latest = NoFile THEN ReturnStub(p)
       ELSE callers' = [callers EXCEPT ![p].pc = "found", ![p].latest = latest]
    /\ UNCHANGED <<pc, history, disk, astCache, coreVars, graphVars, webviewVars>>

\* JSON.parse(await fs.promises.readFile(latest)) and the test of
\* output.sources.
ReadFile(p) ==
    /\ pc = "cache"
    /\ callers[p].pc = "found"
    /\ IF disk[callers[p].latest] = 0 THEN ReturnStub(p)
       ELSE IF history[disk[callers[p].latest]].kind = "nosources" THEN ReturnStub(p)
       ELSE callers' = [callers EXCEPT ![p].pc = "read",
                                       ![p].raw = ContentOf(history, disk[callers[p].latest])]
    /\ UNCHANGED <<pc, history, disk, astCache, coreVars, graphVars, webviewVars>>

\* getCachedOrReadAsts up to its await: fs.promises.stat(latestFile),
\* undefined when the file is gone.
StatFile(p) ==
    /\ pc = "cache"
    /\ callers[p].pc = "read"
    /\ callers' = [callers EXCEPT
                      ![p].pc = "stated",
                      ![p].stat = IF disk[callers[p].latest] = 0 THEN undefined
                                  ELSE history[disk[callers[p].latest]].mtimeMs]
    /\ UNCHANGED <<pc, history, disk, astCache, coreVars, graphVars, webviewVars>>

\* getCachedOrReadAsts after its await, run to its return without
\* interruption.
ResumeAfterStat(p) ==
    /\ pc = "cache"
    /\ callers[p].pc = "stated"
    /\ LET r == getCachedOrReadAsts(astCache, callers[p].latest, callers[p].stat,
                                    callers[p].raw) IN
       /\ astCache' = r.astCache
       /\ callers' = [callers EXCEPT ![p].pc = "returned", ![p].asts = r.asts,
                                     ![p].parsed = r.parsed]
    /\ UNCHANGED <<pc, history, disk, coreVars, graphVars, webviewVars>>

NextCache ==
    \/ \E f \in Range(BuildInfoFiles), kind \in ContentKinds, t \in {Clock, Clock + 1} :
          WriteFile(f, kind, t)
    \/ \E f \in Range(BuildInfoFiles) : DeleteFile(f)
    \/ \E p \in Callers : FindLatest(p)
    \/ \E p \in Callers : ReadFile(p)
    \/ \E p \in Callers : StatFile(p)
    \/ \E p \in Callers : ResumeAfterStat(p)

SpecCache == InitCache /\ [][NextCache]_vars

---------------------------------------------------------------------------
(* Claims about the read-cache (checked under SpecCache)                   *)

\* The entry a call stores: its file, the mtime it stat'ed, what it parsed.
EntryOf(c) ==
    [defined |-> TRUE, file |-> c.latest, mtimeMs |-> c.stat, asts |-> ReadAsts(c.raw),
     sourceKeys |-> SourceKeys(c.raw)]

\* The cache holds an entry with the file path and the modification time of
\* the latest build-info file as the call knows them.
HoldsEntryFor(c) ==
    /\ astCache.defined
    /\ c.stat # undefined
    /\ astCache.file = c.latest /\ astCache.mtimeMs = c.stat

\* C24: getCachedOrReadAsts returns the cached ASTs, without parsing and
\* without touching the cache, exactly when the cache holds an entry with the
\* file path and modification time of the latest build-info file; otherwise it
\* parses the supplied sources and, if the file could be stat'ed, replaces the
\* entry with (file, mtime, parsed ASTs) as a whole; the cache is undefined
\* or one whole entry at every moment.
C24_HitExactlyOnSameFileAndMtime ==
    [][\A p \in Callers :
          (pc = "cache" /\ callers[p].pc = "stated" /\ callers'[p].pc = "returned") =>
             /\ HoldsEntryFor(callers[p]) =>
                   /\ ~callers'[p].parsed
                   /\ callers'[p].asts = astCache.asts
                   /\ astCache' = astCache
             /\ ~HoldsEntryFor(callers[p]) =>
                   /\ callers'[p].parsed
                   /\ callers'[p].asts = ReadAsts(callers[p].raw)
                   /\ astCache' = IF callers[p].stat # undefined THEN EntryOf(callers[p])
                                  ELSE astCache
             /\ astCache' = NoEntry \/ \E q \in Callers : astCache' = EntryOf(callers[q])
      ]_vars

\* C24 witness: one call has parsed and stored the ASTs, the other has got
\* them from the cache without parsing.
C24_Witness ==
    /\ pc = "cache"
    /\ callers["c1"].pc = "returned" /\ callers["c1"].parsed
    /\ callers["c2"].pc = "returned" /\ ~callers["c2"].stubbed /\ ~callers["c2"].parsed
    /\ callers["c2"].asts = astCache.asts /\ astCache.asts # <<>>
    /\ callers["c2"].raw = callers["c1"].raw

\* C29: a cache entry pairs a modification time with the ASTs of the content
\* the file had at that modification time, whatever the interleaving of calls
\* and rewrites of the build-info file.
C29_EntryPairsMtimeWithItsContent ==
    (pc = "cache" /\ astCache.defined) =>
        \E v \in 1..Len(history) :
            /\ history[v].file = astCache.file
            /\ history[v].mtimeMs = astCache.mtimeMs
            /\ astCache.asts = ReadAsts(ContentOf(history, v))

---------------------------------------------------------------------------
(* Single-file preview: updateWebview generations of one editor            *)

NoBody == [of |-> 0, contract |-> ""]

\* getLoadingHtml(document, settings), the notice the runBuild handler
\* shows, and getHtml(webview, document, settings, body): the page around
\* the body generateCallGraph returned.
LoadingHtml == [page |-> "loading", body |-> NoBody]
BuildingHtml == [page |-> "building", body |-> NoBody]
getHtml(body) == [page |-> "preview", body |-> body]

\* A generation that awaits generateCallGraph, and one that has got its result.
Running == [status |-> "running", html |-> NoBody, primaryContractName |-> NoPrimaryContract]
Finished(res) ==
    [status |-> "finished", html |-> res.html,
     primaryContractName |-> res.primaryContractName]

\* Faulty variant: a generation never takes itself for stale.
IsStaleNever(tok, current) == FALSE

\* token !== genToken
IsStale(tok, current) == tok # current

---------------------------------------------------------------------------
(* Specification of the preview of one editor                              *)

\* Largest number of generations started.
MaxGenerations == 3

\* What generateCallGraph can give generation g (it reads the document and
\* the build-info as they are while g runs): the graph of the first contract
\* of the file, or a stub, which names no primary contract.
ResultsOf(g) ==
    {[html |-> [of |-> g, contract |-> name], primaryContractName |-> name] :
        name \in {"Token", "Vault"}}
    \cup {[html |-> [of |-> g, contract |-> "stub"], primaryContractName |-> NoPrimaryContract]}

\* resolveCustomTextEditor has returned: its call of updateWebview has run up
\* to the await of generateCallGraph.
InitWebview ==
    /\ pc = "webview"
    /\ genToken = 1
    /\ webviewHtml = LoadingHtml
    /\ lastPrimaryContract = NoPrimaryContract
    /\ generations = <<Running>>
    /\ handle = FALSE
    /\ building = FALSE
    /\ includeAllArg = FALSE /\ roots = <<>>
    /\ CoreIdle /\ BatchIdle /\ GraphIdle /\ CacheIdle

\* scheduleUpdate(), called when the document changes or a setting is
\* updated: the timer is cleared and armed again.
ScheduleUpdate ==
    /\ pc = "webview"
    /\ handle' = TRUE
    /\ UNCHANGED <<pc, genToken, webviewHtml, lastPrimaryContract, generations, building,
                   coreVars, graphVars, cacheVars>>

\* The timer fires: updateWebview runs up to the await of generateCallGraph.
StartGeneration ==
    /\ pc = "webview"
    /\ handle
    /\ genToken < MaxGenerations
    /\ handle' = FALSE
    /\ genToken' = genToken + 1
    /\ generations' = Append(generations, Running)
    /\ webviewHtml' = LoadingHtml
    /\ UNCHANGED <<pc, lastPrimaryContract, building, coreVars, graphVars, cacheVars>>

\* generateCallGraph settles for the generation with this token: the rest of
\* updateWebview.
FinishGeneration(tok, res) ==
    /\ pc = "webview"
    /\ tok \in 1..Len(generations)
    /\ generations[tok] = Running
    /\ generations' = [generations EXCEPT ![tok] = Finished(res)]
    /\ IF IsStale(tok, genToken)
       THEN UNCHANGED <<webviewHtml, lastPrimaryContract>>
       ELSE /\ lastPrimaryContract' = IF res.primaryContractName # NoPrimaryContract
                                      THEN res.primaryContractName
                                      ELSE lastPrimaryContract
            /\ webviewHtml' = getHtml(res.html)
    /\ UNCHANGED <<pc, genToken, handle, building, coreVars, graphVars, cacheVars>>

\* The runBuild message: the notice replaces the page and the build starts.
RunBuild ==
    /\ pc = "webview"
    /\ ~building
    /\ webviewHtml' = BuildingHtml
    /\ building' = TRUE
    /\ UNCHANGED <<pc, genToken, lastPrimaryContract, generations, handle, coreVars, graphVars,
                   cacheVars>>

\* The build command settles: scheduleUpdate().
BuildSettled ==
    /\ pc = "webview"
    /\ building
    /\ building' = FALSE
    /\ handle' = TRUE
    /\ UNCHANGED <<pc, genToken, webviewHtml, lastPrimaryContract, generations, coreVars,
                   graphVars, cacheVars>>

NextWebview ==
    \/ ScheduleUpdate
    \/ StartGeneration
    \/ \E tok \in 1..MaxGenerations : \E res \in ResultsOf(tok) :
          FinishGeneration(tok, res)
    \/ RunBuild
    \/ BuildSettled

SpecWebview == InitWebview /\ [][NextWebview]_vars

---------------------------------------------------------------------------
(* Claims about the preview (checked under SpecWebview)                    *)

AllFinished == \A g \in 1..Len(generations) : generations[g] # Running

\* The step is the end of generation g.
Finishes(g) ==
    /\ pc = "webview"
    /\ g \in 1..Len(generations)
    /\ generations[g] = Running
    /\ generations'[g] # Running

=============================================================================
